---- MODULE Spec2Model ----
(***************************************************************************)
(* db2vec: the migration pipeline of execute_migration_workflow            *)
(* (src/src/workflow.rs): optional local TEI start, generator              *)
(* initialisation, the embedding orchestrator (src/src/embedding/          *)
(* embeding.rs) over the providers (embeding.rs service, models/ollama.rs, *)
(* models/tei.rs, models/google.rs), grouping by table, and the storage    *)
(* loop through store_in_batches (src/src/db/mod.rs).                      *)
(*                                                                         *)
(* The embedding provider and the vector store driver are the environment: *)
(* their replies are chosen nondeterministically.  A vector is abstracted  *)
(* to its length and to the text it was computed for (src; 0 when the      *)
(* vector was not computed by a provider but substituted by the code).     *)
(* A Record is abstracted to its table and the byte length of its JSON     *)
(* encoding; a text is identified by the index of its Record.              *)
(***************************************************************************)
EXTENDS Integers, Sequences, FiniteSets, TLC

\* ---------------------------------------------------------------- bounds
MaxRecords == 3
\* args.dimension, the configured dimension D
D == 2

\* ------------------------------------------------------ program constants
\* byte length of Uuid::new_v4().to_string()
UuidLen == 36
\* EmbeddingConfig.max_retries
MaxRetries == 3
\* TeiEmbeddingClient: let mut retries = 3
TeiRetries == 3
BytesPerMb == 1024 * 1024

\* ------------------------------------------------------------ input sets
Tables == {"t1", "t2"}
\* args.embedding_batch_size
BatchSizes == {2}
Providers == {"service", "ollama", "tei", "google"}
\* lengths of the vectors a provider may answer with
ProviderDims == {D, D + 1}

Min(a, b) == IF a < b THEN a ELSE b

\* ------------------------------------------------------------- vectors
Vec(len, src) == [len |-> len, src |-> src]
\* vec![0.0; self.dimension]
ZeroVec == Vec(D, 0)
\* Vec::new() / unwrap_or_default()
EmptyVec == Vec(0, 0)

\* slice.chunks(c): the number of chunks and the k-th chunk (1-based)
NumChunks(n, c) == (n + c - 1) \div c
ChunkFrom(c, k) == (k - 1) * c + 1
ChunkTo(n, c, k) == Min(k * c, n)
Chunk(s, c, k) == SubSeq(s, ChunkFrom(c, k), ChunkTo(Len(s), c, k))

RECURSIVE Flatten(_)
Flatten(ss) == IF ss = <<>> THEN <<>> ELSE Head(ss) \o Flatten(Tail(ss))

\* iter().filter(p).collect() for the predicate "not empty"
RECURSIVE FilterNonEmpty(_)
FilterNonEmpty(vs) ==
    IF vs = <<>> THEN <<>>
    ELSE IF Head(vs).len # 0 THEN <<Head(vs)>> \o FilterNonEmpty(Tail(vs))
    ELSE FilterNonEmpty(Tail(vs))

\* outcomes of one provider call / one single-text call
Ok(vecs) == [ok |-> TRUE, vecs |-> vecs]
Err == [ok |-> FALSE, vecs |-> <<>>]
SingleOk(len) == [ok |-> TRUE, len |-> len]
SingleErr == [ok |-> FALSE, len |-> 0]

\* one HTTP reply to a single-text request: a transport error, a non-2xx
\* status, an undecodable body, a body without the embedding array, or a
\* vector of some length
SingleReplies ==
    LET Reply(kind, len) == [kind |-> kind, len |-> len]
    IN  {Reply(k, 0) : k \in {"transport", "status", "badjson", "noarray"}}
            \cup {Reply("vec", l) : l \in ProviderDims}

\* --------------------------------------------- embeding.rs: the service
\* EmbeddingService::generate_single: the retry loop over the replies
RECURSIVE GenerateSingleLoop(_, _)
GenerateSingleLoop(replies, attempt) ==
    IF attempt > MaxRetries THEN SingleErr
    ELSE LET r == replies[attempt] IN
         CASE r.kind = "transport" -> SingleErr
           [] r.kind = "status" -> GenerateSingleLoop(replies, attempt + 1)
           [] r.kind = "badjson" -> SingleErr
           [] r.kind = "noarray" -> GenerateSingleLoop(replies, attempt + 1)
           [] OTHER -> SingleOk(r.len)

GenerateSingle(replies) == GenerateSingleLoop(replies, 1)

\* what generate_single / generate_embedding can return
ServiceSingleResults ==
    {GenerateSingle(a) : a \in [1..MaxRetries -> SingleReplies]}

\* one entry of a batched reply {"embeddings": [{"embedding": [..]}, ..]}
BatchReplies(n) ==
    LET Entry(has, len) == [has |-> has, len |-> len]
        Entries == {Entry(FALSE, 0)} \cup {Entry(TRUE, l) : l \in ProviderDims}
        EntrySeqs ==
            UNION {[1..m -> Entries] : m \in {k \in {n - 1, n} : k >= 0}}
        BatchReply(kind, entries) == [kind |-> kind, entries |-> entries]
    IN  {BatchReply(k, <<>>) : k \in {"fail", "badjson", "noarray"}}
            \cup {BatchReply("entries", es) : es \in EntrySeqs}

\* process_batch_chunk, lines 200-209: entries without an embedding array
\* are skipped; entry j answers text j
RECURSIVE ServiceParseEntries(_, _)
ServiceParseEntries(es, j) ==
    IF j > Len(es) THEN <<>>
    ELSE IF es[j].has
         THEN <<Vec(es[j].len, j)>> \o ServiceParseEntries(es, j + 1)
         ELSE ServiceParseEntries(es, j + 1)

\* process_batch_chunk, lines 223-247: per-text requests, a failed one
\* gives Vec::new(), the empty ones are filtered out, the rest is returned
ServiceFallback(n, singles) ==
    Ok(FilterNonEmpty(
        [i \in 1..n |-> IF singles[i].ok THEN Vec(singles[i].len, i)
                        ELSE EmptyVec]))

ServiceBatchAccepted(n, reply) ==
    /\ reply.kind = "entries"
    /\ Len(ServiceParseEntries(reply.entries, 1)) = n

\* EmbeddingService::process_batch_chunk (generate_batch calls it once:
\* the orchestrator's chunks are never longer than batch_size)
ProcessBatchChunk(n, reply, singles) ==
    IF reply.kind = "badjson" THEN Err
    ELSE IF ServiceBatchAccepted(n, reply)
         THEN Ok(ServiceParseEntries(reply.entries, 1))
         ELSE ServiceFallback(n, singles)

\* ------------------------------------------------- models/ollama.rs
\* OllamaEmbeddingClient::generate_single_embedding: one request, the
\* vector is accepted only with the configured dimension
OllamaSingle(r) ==
    IF r.kind = "vec" /\ r.len = D THEN SingleOk(r.len) ELSE SingleErr

\* generate_embeddings_batch, lines 112-139: one vector per entry, a zero
\* vector where the entry has no embedding array or a wrong dimension
OllamaParseEntries(es) ==
    [j \in 1..Len(es) |->
        IF es[j].has /\ es[j].len = D THEN Vec(es[j].len, j) ELSE ZeroVec]

\* generate_embeddings_batch, lines 184-204: per-text requests, a zero
\* vector for each failed one
OllamaFallback(n, singles) ==
    Ok([i \in 1..n |->
        IF OllamaSingle(singles[i]).ok
        THEN Vec(OllamaSingle(singles[i]).len, i) ELSE ZeroVec])

OllamaBatchAccepted(n, reply) ==
    reply.kind = "entries" /\ Len(reply.entries) = n

\* OllamaEmbeddingClient::generate_embeddings_batch
OllamaGenerate(n, reply, singles) ==
    IF OllamaBatchAccepted(n, reply)
    THEN Ok(OllamaParseEntries(reply.entries))
    ELSE OllamaFallback(n, singles)

\* ---------------------------------------------------- models/tei.rs
\* a reply to POST /embed: transport error, non-2xx, undecodable body, or
\* a body [[f32..], ..] given by the lengths of its vectors
TeiReplies(n) ==
    LET TeiReply(kind, lens) == [kind |-> kind, lens |-> lens]
    IN  {TeiReply(k, <<>>) : k \in {"transport", "status", "badjson"}}
            \cup {TeiReply("body", ls) :
                    ls \in UNION {[1..m -> ProviderDims] :
                                    m \in {k \in {n - 1, n} : k >= 0}}}

\* TeiEmbeddingClient::generate_embeddings_batch: the retry loop
RECURSIVE TeiLoop(_, _, _)
TeiLoop(n, replies, retries) ==
    IF retries = 0 THEN Err
    ELSE LET r == replies[TeiRetries - retries + 1] IN
         CASE r.kind = "transport" -> TeiLoop(n, replies, retries - 1)
           [] r.kind = "status" -> Err
           [] r.kind = "badjson" -> Err
           [] OTHER ->
                IF Len(r.lens) # n THEN Err
                ELSE IF \E j \in 1..n : r.lens[j] # D THEN Err
                ELSE Ok([j \in 1..n |-> Vec(r.lens[j], j)])

TeiGenerate(n, replies) == TeiLoop(n, replies, TeiRetries)

\* -------------------------------------------------- models/google.rs
\* GoogleEmbeddingClient::generate_embeddings_batch: one request per text
\* in order, the first failure fails the call, no check of the dimension
RECURSIVE GoogleLoop(_, _, _, _)
GoogleLoop(n, replies, i, results) ==
    IF i > n THEN Ok(results)
    ELSE IF replies[i].kind = "vec"
         THEN GoogleLoop(n, replies, i + 1,
                         Append(results, Vec(replies[i].len, i)))
         ELSE Err

GoogleGenerate(n, replies) == GoogleLoop(n, replies, 1, <<>>)

\* ------------------------------------------- what the environment did

ProviderCases(p, n) ==
    LET \* A provider case is the result of one generate_embeddings_batch call with
        \* two history flags: dm, a reply that was read carried a vector of a
        \* length other than D; fl, the last request made for some text failed.
        Case(res, dm, fl) == [res |-> res, dm |-> dm, fl |-> fl]
        ServiceCases ==
            {Case(ProcessBatchChunk(n, r, s),
                  IF ServiceBatchAccepted(n, r)
                  THEN \E j \in 1..Len(r.entries) :
                           r.entries[j].has /\ r.entries[j].len # D
                  ELSE r.kind # "badjson" /\ \E i \in 1..n : s[i].ok /\ s[i].len # D,
                  /\ r.kind # "badjson"
                  /\ ~ServiceBatchAccepted(n, r)
                  /\ \E i \in 1..n : ~s[i].ok) :
                r \in BatchReplies(n), s \in [1..n -> ServiceSingleResults]}
        OllamaCases ==
            {Case(OllamaGenerate(n, r, s),
                  IF OllamaBatchAccepted(n, r)
                  THEN \E j \in 1..n : r.entries[j].has /\ r.entries[j].len # D
                  ELSE \E i \in 1..n : s[i].kind = "vec" /\ s[i].len # D,
                  ~OllamaBatchAccepted(n, r) /\ \E i \in 1..n : s[i].kind # "vec") :
                r \in BatchReplies(n), s \in [1..n -> SingleReplies]}
        \* the reply that ends the TEI retry loop (0: every request failed in
        \* transport)
        TeiLast(replies) ==
            IF \A i \in 1..TeiRetries : replies[i].kind = "transport" THEN 0
            ELSE CHOOSE i \in 1..TeiRetries :
                    /\ replies[i].kind # "transport"
                    /\ \A j \in 1..(i - 1) : replies[j].kind = "transport"
        TeiCases ==
            {Case(TeiGenerate(n, a),
                  /\ TeiLast(a) # 0
                  /\ a[TeiLast(a)].kind = "body"
                  /\ \E j \in 1..Len(a[TeiLast(a)].lens) : a[TeiLast(a)].lens[j] # D,
                  ~TeiGenerate(n, a).ok) :
                a \in [1..TeiRetries -> TeiReplies(n)]}
        GoogleCases ==
            {Case(GoogleGenerate(n, a),
                  /\ GoogleGenerate(n, a).ok
                  /\ \E i \in 1..n : a[i].len # D,
                  ~GoogleGenerate(n, a).ok) :
                a \in [1..n -> SingleReplies]}
    IN
    CASE p = "service" -> ServiceCases
      [] p = "ollama" -> OllamaCases
      [] p = "tei" -> TeiCases
      [] OTHER -> GoogleCases

\* ------------------------------- embeding.rs: the orchestrator, one chunk

\* every outcome of the embedding of a chunk of n texts, per provider
ChunkOutcomes ==
    LET \* process_records_with_embeddings, lines 292-305: the vectors of the
        \* provider, or on Err one generate_embedding(..).unwrap_or_default() per
        \* record.  cm: the call returned Ok with a count other than the chunk's.
        Embeddings(n, c, fb) ==
            IF c.res.ok
            THEN [vecs |-> c.res.vecs,
                  cm |-> Len(c.res.vecs) # n,
                  dm |-> c.dm,
                  fl |-> c.fl]
            ELSE [vecs |-> [i \in 1..n |-> IF fb[i].ok THEN Vec(fb[i].len, i)
                                           ELSE EmptyVec],
                  cm |-> FALSE,
                  dm |-> c.dm \/ \E i \in 1..n : fb[i].ok /\ fb[i].len # D,
                  fl |-> \E i \in 1..n : ~fb[i].ok]
        MaxBatchSize == CHOOSE m \in BatchSizes : \A x \in BatchSizes : x <= m
    IN
    [p \in Providers |->
        [n \in 1..MaxBatchSize |->
            {Embeddings(n, c, fb) :
                c \in ProviderCases(p, n),
                fb \in [1..n -> ServiceSingleResults]}]]

ZipChunk(recs, from, n, vecs) ==
    LET \* lines 311-329: chunk.iter().zip(embeddings) pairs the j-th record of the
        \* chunk with the j-th vector and stops at the shorter of the two; the id
        \* is fresh, the table is read from the record, the metadata is the record
        \* without its table entry
        PreparedRecord(i, v) ==
            [table |-> recs[i].table,
             id |-> i,
             vec |-> Vec(v.len, IF v.src = 0 THEN 0 ELSE from + v.src - 1),
             meta |-> [rec |-> i, len |-> recs[i].len, hasTable |-> FALSE]]
    IN
    [j \in 1..Min(n, Len(vecs)) |->
        PreparedRecord(from + j - 1, vecs[j])]

\* ------------------------------------------------ db/mod.rs: batching
\* rec_size = id.len() + vec.len() * 4 + meta_json.len()
RecSize(item) == UuidLen + item.vec.len * 4 + item.meta.len

\* store_in_batches: the loop over the items (i, start 1-based) and the
\* final flush; the result is the list of slices <<first, last>> handed to
\* store_vector, in call order
RECURSIVE StoreInBatchesLoop(_, _, _, _, _, _)
StoreInBatchesLoop(items, max_bytes, i, start, cur_size, calls) ==
    IF i > Len(items)
    THEN IF start <= Len(items)
         THEN Append(calls, <<start, Len(items)>>)
         ELSE calls
    ELSE IF cur_size + RecSize(items[i]) > max_bytes /\ start < i
         THEN StoreInBatchesLoop(items, max_bytes, i + 1, i,
                                 RecSize(items[i]),
                                 Append(calls, <<start, i - 1>>))
         ELSE StoreInBatchesLoop(items, max_bytes, i + 1, start,
                                 cur_size + RecSize(items[i]), calls)

\* the budget is compared before the record is counted
RECURSIVE StoreInBatchesLateLoop(_, _, _, _, _, _)
StoreInBatchesLateLoop(items, max_bytes, i, start, cur_size, calls) ==
    IF i > Len(items)
    THEN IF start <= Len(items)
         THEN Append(calls, <<start, Len(items)>>)
         ELSE calls
    ELSE IF cur_size > max_bytes /\ start < i
         THEN StoreInBatchesLateLoop(items, max_bytes, i + 1, i,
                                     RecSize(items[i]),
                                     Append(calls, <<start, i - 1>>))
         ELSE StoreInBatchesLateLoop(items, max_bytes, i + 1, start,
                                     cur_size + RecSize(items[i]), calls)

StoreInBatchesLate(items, max_bytes) ==
    StoreInBatchesLateLoop(items, max_bytes, 1, 1, 0, <<>>)

\* the flush after the loop is left out once a batch has been flushed
StoreInBatchesNoFlush(items, max_bytes) ==
    LET calls == StoreInBatchesLoop(items, max_bytes, 1, 1, 0, <<>>)
    IN IF Len(calls) > 1 THEN SubSeq(calls, 1, Len(calls) - 1) ELSE calls

StoreInBatches(items, max_bytes) ==
    StoreInBatchesLoop(items, max_bytes, 1, 1, 0, <<>>)

\* ------------------------------------------------ workflow.rs: grouping
Item(p) == [id |-> p.id, vec |-> p.vec, meta |-> p.meta]

\* the item is put in front of the group's list
GroupPushFront(list, item) == <<item>> \o list

\* grouped_records.entry(table).or_insert_with(Vec::new).push(..)
GroupPush(list, item) == Append(list, item)

RECURSIVE GroupLoop(_, _, _)
GroupLoop(prep, i, g) ==
    IF i > Len(prep) THEN g
    ELSE GroupLoop(prep, i + 1,
                   [g EXCEPT ![prep[i].table] = GroupPush(@, Item(prep[i]))])

GroupByTable(prep) == GroupLoop(prep, 1, [t \in Tables |-> <<>>])

\* ---------------------------------------------------------------- state
VARIABLES
    records,          \* the parsed Records handed to the workflow
    args,             \* the configuration
    pc,               \* the coordinator's position
    teiProc,          \* the local TEI subprocess: none, running, killed
    chunkDone,        \* the chunks of the embedding stage that are finished
    chunkRes,         \* their PreparedRecords
    embedding_count,  \* the embedding progress counter
    prepared,         \* the orchestrator's result
    grouped,          \* table -> items
    todo,             \* the tables of the map not yet iterated
    curTable,         \* the table being stored ("" between tables)
    ci,               \* the chunk of items.chunks(chunk_size) being stored
    bi,               \* the next call of store_in_batches for that chunk
    storeLog,         \* every store_vector call made, in order
    processed_count,  \* the storage progress counter
    result,           \* running, ok, err
    failStage,        \* the stage that returned the error
    statsProcessed,   \* MigrationStats.processed_records
    sawCountMismatch, \* a provider call returned Ok with a wrong count
    sawDimMismatch,   \* a provider reply carried a vector of length # D
    sawFailure        \* the last request made for some text failed

\* the state of parse_database_export (src/src/parser/mod.rs)
VARIABLES
    format,           \* the dialect handed to parse_database_export
    content,          \* the export file, as its sequence of statements
    preserve_order,   \* serde_json's Map keeps insertion order (build feature)
    all_records,      \* the records parse_database_export returns
    parse_result      \* pending, ok, panic

workflowVars ==
    <<records, args, pc, teiProc, chunkDone, chunkRes, embedding_count,
      prepared, grouped, todo, curTable, ci, bi, storeLog,
      processed_count, result, failStage, statsProcessed,
      sawCountMismatch, sawDimMismatch, sawFailure>>

parseVars == <<format, content, preserve_order, all_records, parse_result>>

\* the state of a vector store driver (src/src/db/) and of its backend
VARIABLES
    driver,           \* the implementation of Database in use
    dargs,            \* args.metric, args.group_redis, the table written to
    dpc,              \* new, ready, check, create, write, failed
    call,             \* the store_vector call in progress
    ncalls,           \* the store_vector calls that have returned
    newRejected,      \* the backend rejected a definition during new()
    containers,       \* the backend's databases, collections, indexes
    sent,             \* the write requests the backend accepted
    kv,               \* Redis: the JSON document at each `table:` key
    returns           \* what each store_vector call returned

dbVars == <<driver, dargs, dpc, call, ncalls, newRejected, containers, sent,
            kv, returns>>

VARIABLES
    file_path,        \* detect_format: the path of the export file
    signatures,       \* detect_format: the signature texts the content holds
    detected,         \* what detect_format returned ("" before the call)
    val,              \* clean_html_in_value: the value, cleaned in place
    cleanCount,       \* how many times it has been cleaned
    ACTIVE_REQUESTS,  \* embeding.rs 23: the global counter
    max_concurrency,  \* config.max_concurrency
    caller,           \* the threads that call generate_single
    client,           \* the provider client at work: tei or google
    tei,              \* TeiEmbeddingClient::generate_embeddings_batch
    google,           \* the GoogleEmbeddingClient calls, one per chunk
    now,              \* the time, in ticks
    requests,         \* the embedContent requests sent, with their time
    server            \* start_and_wait_for_tei and the TEI subprocess

serviceVars == <<ACTIVE_REQUESTS, max_concurrency, caller>>
clientVars == <<client, tei, google, now, requests, server>>
unitVars ==
    <<file_path, signatures, detected, val, cleanCount, serviceVars,
      clientVars>>

\* what a step of the migration workflow leaves alone
outsideWorkflow == <<parseVars, dbVars, unitVars>>

vars == <<workflowVars, outsideWorkflow>>

\* no export is being parsed
ParseIdle ==
    /\ format = "none"
    /\ content = <<>>
    /\ preserve_order = FALSE
    /\ all_records = <<>>
    /\ parse_result = "idle"

\* the keys `table:<name>` of the Redis keyspace that are written to
RedisKeys == {"users", "Users"}
NoCall == [items |-> <<>>, step |-> 0, sawExists |-> FALSE,
           sawRejected |-> FALSE]

\* no function is under test on its own
ValuesIdle ==
    /\ file_path = ""
    /\ signatures = {}
    /\ detected = ""
    /\ val = [kind |-> "null", s |-> <<>>, items |-> <<>>]
    /\ cleanCount = 0
\* no thread is in generate_single
ServiceIdle ==
    /\ ACTIVE_REQUESTS = 0
    /\ max_concurrency = 1
    /\ caller = <<>>
\* no provider client is at work
ClientsIdle ==
    /\ client = "none"
    /\ tei = <<>>
    /\ google = <<>>
    /\ now = 0
    /\ requests = <<>>
    /\ server = <<>>
UnitsIdle == ValuesIdle /\ ServiceIdle /\ ClientsIdle

\* no driver has been constructed
DbIdle ==
    /\ driver = "none"
    /\ dargs = [metric |-> "cosine", group_redis |-> FALSE, table |-> "users"]
    /\ dpc = "idle"
    /\ call = NoCall
    /\ ncalls = 0
    /\ newRejected = FALSE
    /\ containers = {}
    /\ sent = <<>>
    /\ kv = [k \in RedisKeys |-> <<>>]
    /\ returns = <<>>

NoTable == ""

Init ==
    LET \* the records of the input: small and large ones of one table, small ones
        \* of the other.  MetaLens are byte lengths of the JSON-encoded metadata of
        \* a record: three of the small ones with empty vectors fill one MB to the
        \* byte, a large one exceeds it
        RecordSeqs ==
            LET MetaLens == {349489, 1100000}
                Record(t, l) == [table |-> t, len |-> l]
                RecordKinds ==
                    {Record(t, l) : t \in Tables, l \in MetaLens}
                        \ {Record("t2", l) : l \in {x \in MetaLens : x > BytesPerMb}}
            IN  UNION {[1..n -> RecordKinds] : n \in 0..MaxRecords}
        \* local_tei: the provider is tei and no embedding_url is given;
        \* args.chunk_size is 2 or 3, args.max_payload_size_mb is 1
        ArgsSet ==
            {[provider |-> p, local_tei |-> lt, chunk_size |-> c, batch_size |-> b,
              max_payload_size_mb |-> mb] :
                p \in Providers, lt \in BOOLEAN, c \in {2, 3}, b \in BatchSizes,
                mb \in {1}}
    IN
    /\ records \in RecordSeqs
    /\ args \in {a \in ArgsSet : a.local_tei => a.provider = "tei"}
    /\ pc = "start"
    /\ teiProc = "none"
    /\ chunkDone = {}
    /\ chunkRes = [k \in 1..NumChunks(Len(records), args.batch_size) |-> <<>>]
    /\ embedding_count = 0
    /\ prepared = <<>>
    /\ grouped = [t \in Tables |-> <<>>]
    /\ todo = {}
    /\ curTable = NoTable
    /\ ci = 1
    /\ bi = 1
    /\ storeLog = <<>>
    /\ processed_count = 0
    /\ result = "running"
    /\ failStage = "none"
    /\ statsProcessed = 0
    /\ sawCountMismatch = FALSE
    /\ sawDimMismatch = FALSE
    /\ sawFailure = FALSE
    /\ ParseIdle
    /\ DbIdle
    /\ UnitsIdle

\* a ManagedProcess that goes out of scope is killed by its Drop
Dropped(proc) == IF proc = "running" THEN "killed" ELSE proc

\* return Err(..) from the workflow at the given stage
ReturnErr(stage) ==
    /\ pc' = "done"
    /\ result' = "err"
    /\ failStage' = stage
    /\ teiProc' = Dropped(teiProc)

\* workflow.rs 24-32: nothing to do
ReturnEmpty ==
    /\ pc = "start"
    /\ records = <<>>
    /\ pc' = "done"
    /\ result' = "ok"
    /\ UNCHANGED <<outsideWorkflow, records, args, teiProc, chunkDone, chunkRes,
                   embedding_count, prepared, grouped, todo, curTable, ci, bi,
                   storeLog, processed_count, failStage, statsProcessed,
                   sawCountMismatch, sawDimMismatch, sawFailure>>

\* workflow.rs 37-44: start_and_wait_for_tei reported ready
StartTeiOk ==
    /\ pc = "start"
    /\ records # <<>>
    /\ args.local_tei
    /\ pc' = "init"
    /\ teiProc' = "running"
    /\ UNCHANGED <<outsideWorkflow, records, args, chunkDone, chunkRes, embedding_count,
                   prepared, grouped, todo, curTable, ci, bi, storeLog,
                   processed_count, result, failStage, statsProcessed,
                   sawCountMismatch, sawDimMismatch, sawFailure>>

\* start_and_wait_for_tei returned Err, before the spawn or after it (the
\* ManagedProcess is then dropped), or its thread panicked
StartTeiFail ==
    /\ pc = "start"
    /\ records # <<>>
    /\ args.local_tei
    /\ \E spawned \in BOOLEAN :
          teiProc' = IF spawned THEN "killed" ELSE "none"
    /\ pc' = "done"
    /\ result' = "err"
    /\ failStage' = "tei"
    /\ UNCHANGED <<outsideWorkflow, records, args, chunkDone, chunkRes, embedding_count,
                   prepared, grouped, todo, curTable, ci, bi, storeLog,
                   processed_count, statsProcessed,
                   sawCountMismatch, sawDimMismatch, sawFailure>>

AtInit ==
    \/ pc = "init"
    \/ pc = "start" /\ records # <<>> /\ ~args.local_tei

\* workflow.rs 46-47: initialize_embedding_generator returned Ok
InitGeneratorOk ==
    /\ AtInit
    /\ pc' = "embed"
    /\ UNCHANGED <<outsideWorkflow, records, args, teiProc, chunkDone, chunkRes,
                   embedding_count, prepared, grouped, todo, curTable, ci, bi,
                   storeLog, processed_count, result, failStage,
                   statsProcessed, sawCountMismatch, sawDimMismatch,
                   sawFailure>>

\* workflow.rs 46-47: initialize_embedding_generator returned Err
InitGeneratorFail ==
    /\ AtInit
    /\ ReturnErr("init")
    /\ UNCHANGED <<outsideWorkflow, records, args, chunkDone, chunkRes, embedding_count,
                   prepared, grouped, todo, curTable, ci, bi, storeLog,
                   processed_count, statsProcessed,
                   sawCountMismatch, sawDimMismatch, sawFailure>>

\* ---------------------------------------------------- embedding stage
TotalChunks == NumChunks(Len(records), args.batch_size)
ChunkLen(k) ==
    ChunkTo(Len(records), args.batch_size, k)
        - ChunkFrom(args.batch_size, k) + 1

\* embeding.rs 284-330: one chunk of records.par_chunks(chunk_size) is
\* embedded and zipped; the chunks run in parallel, in any order
EmbedChunk(k) ==
    /\ pc = "embed"
    /\ k \in 1..TotalChunks
    /\ k \notin chunkDone
    /\ \E o \in ChunkOutcomes[args.provider][ChunkLen(k)] :
          /\ chunkRes' = [chunkRes EXCEPT ![k] =
                ZipChunk(records, ChunkFrom(args.batch_size, k),
                         ChunkLen(k), o.vecs)]
          /\ sawCountMismatch' = (sawCountMismatch \/ o.cm)
          /\ sawDimMismatch' = (sawDimMismatch \/ o.dm)
          /\ sawFailure' = (sawFailure \/ o.fl)
    /\ chunkDone' = chunkDone \cup {k}
    /\ embedding_count' = embedding_count + ChunkLen(k)
    /\ UNCHANGED <<outsideWorkflow, records, args, pc, teiProc, prepared, grouped, todo,
                   curTable, ci, bi, storeLog, processed_count, result,
                   failStage, statsProcessed>>

\* the result is taken as soon as one chunk has been mapped
EmbeddingStageStarted == chunkDone # {}

\* embeding.rs 331: collect() returns when every chunk has been mapped
EmbeddingStageFinished == chunkDone = 1..TotalChunks

\* flat_map(..).collect(): the chunks' results in the order of the chunks
Collect == Flatten([k \in 1..TotalChunks |-> chunkRes[k]])

\* the keys of grouped_records
GroupKeys(g) == {t \in Tables : g[t] # <<>>}

\* workflow.rs 59-62, 70-90: the orchestrator returned Ok; the prepared
\* records are grouped by table
EmbedReturnOk ==
    /\ pc = "embed"
    /\ EmbeddingStageFinished
    /\ prepared' = Collect
    /\ grouped' = GroupByTable(Collect)
    /\ todo' = GroupKeys(GroupByTable(Collect))
    /\ pc' = "store"
    /\ UNCHANGED <<outsideWorkflow, records, args, teiProc, chunkDone, chunkRes,
                   embedding_count, curTable, ci, bi, storeLog,
                   processed_count, result, failStage, statsProcessed,
                   sawCountMismatch, sawDimMismatch, sawFailure>>

\* workflow.rs 63-67: the orchestrator returned Err
EmbedReturnErr ==
    /\ pc = "embed"
    /\ ReturnErr("embed")
    /\ UNCHANGED <<outsideWorkflow, records, args, chunkDone, chunkRes, embedding_count,
                   prepared, grouped, todo, curTable, ci, bi, storeLog,
                   processed_count, statsProcessed,
                   sawCountMismatch, sawDimMismatch, sawFailure>>

\* ------------------------------------------------------ storage stage
MaxPayloadBytes == args.max_payload_size_mb * BytesPerMb

\* workflow.rs 94: items.chunks(chunk_size)
StoreChunk(t, c) == Chunk(grouped[t], args.chunk_size, c)

\* the store_vector calls store_in_batches makes for chunk c of table t
Calls(t, c) == StoreInBatches(StoreChunk(t, c), MaxPayloadBytes)
Batch(t, c, b) == SubSeq(StoreChunk(t, c), Calls(t, c)[b][1], Calls(t, c)[b][2])

\* workflow.rs 92: the map is iterated in an order the program does not fix
NextTables == IF curTable # NoTable THEN {curTable} ELSE todo

LogEntry(t, batch, ok) == [table |-> t, items |-> batch, ok |-> ok]

\* the loop position after a successful call: the next call of the chunk,
\* else (the chunk is stored, the counter grows) the next chunk, else the
\* next table
Advance(t, c, b) ==
    LET StoreChunks == NumChunks(Len(grouped[t]), args.chunk_size)
    IN
    IF b < Len(Calls(t, c))
    THEN /\ curTable' = t /\ ci' = c /\ bi' = b + 1
         /\ todo' = todo \ {t}
         /\ processed_count' = processed_count
    ELSE /\ processed_count' = processed_count + Len(StoreChunk(t, c))
         /\ todo' = todo \ {t}
         /\ IF c < StoreChunks
            THEN curTable' = t /\ ci' = c + 1 /\ bi' = 1
            ELSE curTable' = NoTable /\ ci' = 1 /\ bi' = 1

\* db/mod.rs 52, 60 and workflow.rs 95-98: store_vector returned Ok
StoreVectorOk ==
    /\ pc = "store"
    /\ \E t \in NextTables :
          /\ storeLog' = Append(storeLog, LogEntry(t, Batch(t, ci, bi), TRUE))
          /\ Advance(t, ci, bi)
    /\ UNCHANGED <<outsideWorkflow, records, args, pc, teiProc, chunkDone, chunkRes,
                   embedding_count, prepared, grouped, result, failStage,
                   statsProcessed, sawCountMismatch, sawDimMismatch,
                   sawFailure>>

\* the error of store_vector is logged and the loop goes on
StoreVectorErrIgnored ==
    /\ pc = "store"
    /\ \E t \in NextTables :
          /\ storeLog' = Append(storeLog, LogEntry(t, Batch(t, ci, bi), FALSE))
          /\ Advance(t, ci, bi)
    /\ UNCHANGED <<outsideWorkflow, records, args, pc, teiProc, chunkDone, chunkRes,
                   embedding_count, prepared, grouped, result, failStage,
                   statsProcessed, sawCountMismatch, sawDimMismatch,
                   sawFailure>>

\* db/mod.rs 52, 60 (the ? operator) and workflow.rs 99-103: store_vector
\* returned Err, which store_in_batches and the workflow return at once
StoreVectorErr ==
    /\ pc = "store"
    /\ \E t \in NextTables :
          /\ storeLog' = Append(storeLog, LogEntry(t, Batch(t, ci, bi), FALSE))
          /\ curTable' = t
          /\ todo' = todo \ {t}
    /\ ReturnErr("store")
    /\ UNCHANGED <<outsideWorkflow, records, args, chunkDone, chunkRes, embedding_count,
                   prepared, grouped, ci, bi, processed_count,
                   statsProcessed, sawCountMismatch, sawDimMismatch,
                   sawFailure>>

\* workflow.rs 107-133: every group is stored; the TEI process is killed
\* and the statistics are returned
Finish ==
    /\ pc = "store"
    /\ curTable = NoTable
    /\ todo = {}
    /\ pc' = "done"
    /\ result' = "ok"
    /\ statsProcessed' = embedding_count
    /\ teiProc' = Dropped(teiProc)
    /\ UNCHANGED <<outsideWorkflow, records, args, chunkDone, chunkRes, embedding_count,
                   prepared, grouped, todo, curTable, ci, bi, storeLog,
                   processed_count, failStage, sawCountMismatch,
                   sawDimMismatch, sawFailure>>

Next ==
    \/ ReturnEmpty
    \/ StartTeiOk
    \/ StartTeiFail
    \/ InitGeneratorOk
    \/ InitGeneratorFail
    \/ \E k \in 1..MaxRecords : EmbedChunk(k)
    \/ EmbedReturnOk
    \/ EmbedReturnErr
    \/ StoreVectorOk
    \/ StoreVectorErr
    \/ Finish

Spec == Init /\ [][Next]_vars

\* =============================================================== claims
\* the orchestrator has returned Ok to the workflow
EmbedReturnedOk ==
    \/ pc = "store"
    \/ pc = "done" /\ records # <<>> /\ failStage \in {"none", "store"}

\* the positions <<call, index>> of the items handed to store_vector
LogPositions ==
    {q \in (1..Len(storeLog)) \X (1..MaxRecords) :
        q[2] <= Len(storeLog[q[1]].items)}
LogItem(q) == storeLog[q[1]].items[q[2]]

\* every PreparedRecord made so far
AllPrepared == Flatten([k \in 1..TotalChunks |-> chunkRes[k]])

RECURSIVE SumOver(_, _, _)
SumOver(items, i, vecBytes) ==
    IF i > Len(items) THEN 0
    ELSE UuidLen
           + (IF vecBytes < 0 THEN 4 * items[i].vec.len ELSE vecBytes)
           + items[i].meta.len
           + SumOver(items, i + 1, vecBytes)

\* the size of a batch as the claim counts it (4*D per vector) and as
\* the code counts it (4 bytes per component of the vector it has)
ClaimedSize(items) == SumOver(items, 1, 4 * D)
CodeSize(items) == SumOver(items, 1, 0 - 1)

C2_CountMismatchIsFatal ==
    sawCountMismatch => (~EmbedReturnedOk /\ storeLog = <<>>)

\* C3: with the Ollama, TEI or Google provider every item handed to the
\* driver carries a provider vector of exactly D components (never a
\* wrong-dimension, empty or substituted one), and once a provider reply
\* carried a vector of another length the migration aborts with nothing
\* stored.
C3_DimensionEnforced ==
    args.provider \in {"ollama", "tei", "google"} =>
        /\ \A q \in LogPositions :
              LogItem(q).vec.len = D /\ LogItem(q).vec.src # 0
        /\ sawDimMismatch => (~EmbedReturnedOk /\ storeLog = <<>>)

\* C4: when the orchestrator has returned Ok for n Records, it has returned
\* exactly n PreparedRecords and the i-th is built from the i-th Record
\* (same table, same fields).
C4_EqualLengthSameOrder ==
    EmbedReturnedOk =>
        /\ Len(prepared) = Len(records)
        /\ \A i \in 1..Len(prepared) :
              /\ prepared[i].meta.rec = i
              /\ prepared[i].table = records[i].table
              /\ prepared[i].meta.len = records[i].len

\* C5: no PreparedRecord pairs a record with a vector that a provider
\* computed for the text of a different record.
C5_VectorOfOwnText ==
    \A i \in 1..Len(AllPrepared) :
        AllPrepared[i].vec.src # 0 =>
            AllPrepared[i].vec.src = AllPrepared[i].meta.rec

\* C6: if the embedding of some text failed (its last request failed), the
\* orchestrator does not return Ok: no partial result, and no result in
\* which the failed embedding is an empty or zero vector.
C6_ChunkFailureIsFatal ==
    sawFailure => ~EmbedReturnedOk

\* C7: within one table the parser's emission order is kept through
\* embedding, grouping and batching: of two records of the same table that
\* are handed to store_vector, the one the parser emitted first is in an
\* earlier call, or at a smaller index of the same batch.
C7_OrderWithinTable ==
    \A q1 \in LogPositions : \A q2 \in LogPositions :
        ( /\ storeLog[q1[1]].table = storeLog[q2[1]].table
          /\ LogItem(q1).meta.rec < LogItem(q2).meta.rec )
        => ( \/ q1[1] < q2[1]
             \/ q1[1] = q2[1] /\ q1[2] < q2[2] )

\* three records of one table were stored, in two calls, one of them a
\* batch of two
C7_Witness ==
    \E j \in 1..Len(storeLog) :
        /\ j > 1
        /\ storeLog[j - 1].table = storeLog[j].table
        /\ Len(storeLog[j - 1].items) + Len(storeLog[j].items) >= 3

\* the items handed to store_vector under table t, in call order
RECURSIVE LoggedFor(_, _)
LoggedFor(t, j) ==
    IF j > Len(storeLog) THEN <<>>
    ELSE (IF storeLog[j].table = t THEN storeLog[j].items ELSE <<>>)
            \o LoggedFor(t, j + 1)

IsPrefix(a, b) == Len(a) <= Len(b) /\ a = SubSeq(b, 1, Len(a))

\* C8: for every table the batches handed to store_vector are non-empty
\* contiguous slices of the group's list, one after the other from its
\* start; when the migration ends with every call successful their
\* concatenation is the whole list, so that every PreparedRecord was handed
\* to the driver exactly once; and every item goes under its own table.
C8_ExactlyOncePartition ==
    /\ \A j \in 1..Len(storeLog) : storeLog[j].items # <<>>
    /\ \A t \in Tables : IsPrefix(LoggedFor(t, 1), grouped[t])
    /\ \A q \in LogPositions :
          records[LogItem(q).meta.rec].table = storeLog[q[1]].table
    /\ result = "ok" =>
          /\ \A t \in Tables : LoggedFor(t, 1) = grouped[t]
          /\ \A i \in 1..Len(prepared) :
                Cardinality({q \in LogPositions :
                                LogItem(q) = Item(prepared[i])}) = 1

\* a migration ended successfully after a table was stored in several
\* batches and another table in its own call
C8_Witness ==
    /\ result = "ok"
    /\ \E j \in 1..Len(storeLog) : \E k \in 1..Len(storeLog) :
          j # k /\ storeLog[j].table = storeLog[k].table
    /\ \E j \in 1..Len(storeLog) : \E k \in 1..Len(storeLog) :
          storeLog[j].table # storeLog[k].table

\* C9: after the first store_vector call that returns an error no further
\* store_vector call is made and the migration returns an error.
C9_StoreErrorStops ==
    \A j \in 1..Len(storeLog) :
        ~storeLog[j].ok =>
            /\ j = Len(storeLog)
            /\ pc = "done"
            /\ result = "err"
            /\ failStage = "store"

\* a call failed after an earlier one succeeded, while items of that table
\* were still to be stored
C9_Witness ==
    /\ Len(storeLog) >= 2
    /\ ~storeLog[Len(storeLog)].ok
    /\ Len(LoggedFor(curTable, 1)) < Len(grouped[curTable])

\* C10: no store_vector call is made before the embedding stage has finished
\* for every chunk, and when the local TEI start, the generator
\* initialisation or the embedding stage ended in an error the storage
\* stage never begins.
C10_StagesInSequence ==
    /\ (pc = "store" \/ storeLog # <<>>) =>
          /\ chunkDone = 1..TotalChunks
          /\ failStage \notin {"tei", "init", "embed"}
    /\ failStage \in {"tei", "init", "embed"} =>
          /\ storeLog = <<>>
          /\ pc = "done"
          /\ result = "err"

\* a store_vector call was made after an embedding stage of two chunks
C10_Witness ==
    /\ storeLog # <<>>
    /\ TotalChunks >= 2
    /\ chunkDone = 1..TotalChunks

\* ======================================================================
\* The export parsers: parse_database_export (src/src/parser/mod.rs) over
\* the dialect parsers of src/src/parser/parse_regex/.  An export file is
\* abstracted to its sequence of statements: a `-- TABLE DATA: <t>` header,
\* a CREATE TABLE with its column names, other text, and a row-carrying
\* statement (INSERT, or a COPY block for Postgres) with its table, its
\* column list when it has one, and one row given by its width; a SurrealDB
\* INSERT [ .. ]; carries its objects instead.  Every SQL value of a row is
\* the same string literal, decoded as the dialect decodes it.
\* ======================================================================

\* ---------------------------------------------------------------- bounds
\* statements of an SQL export, statements of a SurrealDB export
MaxSqlStmts == 2
MaxSurrealStmts == 3

\* ------------------------------------------------------------ input sets
SqlTables == {"X", "Y"}
NoCols == <<>>

\* k.eq_ignore_ascii_case("id")
IsIdKey(k) == k \in {"id", "ID"}
\* the order of the keys of a BTreeMap<String, _>: byte order
KeyRank(k) ==
    CASE k = "ID" -> 1 [] k = "id" -> 2 [] k = "name" -> 3 [] OTHER -> 4

Range(s) == {s[i] : i \in 1..Len(s)}

\* serde_json::Map: insert replaces the value of a key that is present
NewMap == [x \in {} |-> ""]
MapInsert(obj, k, v) ==
    [x \in DOMAIN obj \cup {k} |-> IF x = k THEN v ELSE obj[x]]
MapRemove(obj, k) == [x \in DOMAIN obj \ {k} |-> obj[x]]

RECURSIVE InsertAll(_, _, _, _)
InsertAll(obj, keys, v, i) ==
    IF i > Len(keys) THEN obj
    ELSE InsertAll(MapInsert(obj, keys[i], v), keys, v, i + 1)

\* the string literal of a row and the string the dialect makes of it:
\* N'it''s' without the N and the outer quotes, '' for ' (MSSQL);
\* 'it''s' likewise (MySQL, SQLite, Oracle); a COPY field is taken as it is
RawValue(fmt) ==
    CASE fmt = "mssql" -> "N'it''s'"
      [] fmt = "postgres" -> "it's"
      [] OTHER -> "'it''s'"
DecodeValue(fmt, raw) ==
    CASE fmt = "mssql" /\ raw = "N'it''s'" -> "it's"
      [] fmt \in {"mysql", "sqlite", "oracle"} /\ raw = "'it''s'" -> "it's"
      [] OTHER -> raw

\* ----------------------------------------------------------- statements
Stmt(kind, table, cols, explicit, width, items) ==
    [kind |-> kind, table |-> table, cols |-> cols, explicit |-> explicit,
     width |-> width, items |-> items]
\* the export files: a SQL dump is CREATE TABLE and INSERT statements, with
\* or without a column list and with one to three values in the row; a
\* SurrealDB dump is TABLE DATA headers, other text and INSERT statements
\* of objects, each object with its keys and as JSON text or not
Contents(fmt) ==
    LET ColLists ==
            {<<"name">>, <<"id">>, <<"id", "name">>, <<"id", "ID", "name">>}
        Widths == {1, 2, 3}
        HeaderTables == {"a", "b"}
        SurrealItem(json, keys) == [json |-> json, keys |-> keys]
        SurrealKeyLists ==
            {<<>>, <<"id">>, <<"name">>, <<"id", "name">>, <<"ID", "name">>}
        SurrealItems ==
            {SurrealItem(j, k) : j \in BOOLEAN, k \in SurrealKeyLists}
        SurrealItemLists ==
            {<<x>> : x \in SurrealItems} \cup
            {<<x, y>> : x, y \in {SurrealItem(TRUE, <<"name">>),
                                  SurrealItem(FALSE, <<"id", "name">>)}}
        SqlStmts ==
            {Stmt("create", t, c, FALSE, 0, <<>>) :
                t \in SqlTables, c \in ColLists} \cup
            {Stmt("insert", "X", c, TRUE, w, <<>>) :
                c \in ColLists, w \in Widths} \cup
            {Stmt("insert", "X", NoCols, FALSE, w, <<>>) : w \in Widths}
        SurrealStmts ==
            {Stmt("header", t, NoCols, FALSE, 0, <<>>) : t \in HeaderTables}
            \cup {Stmt("text", "", NoCols, FALSE, 0, <<>>)} \cup
            {Stmt("insert", "", NoCols, FALSE, 0, l) : l \in SurrealItemLists}
    IN  IF fmt = "surreal"
        THEN UNION {[1..n -> SurrealStmts] : n \in 1..MaxSurrealStmts}
        ELSE UNION {[1..n -> SqlStmts] : n \in 1..MaxSqlStmts}

\* a parsed record and, for the properties below, the statement it came from
Emitted(obj, stmt) == [obj |-> obj, stmt |-> stmt]

None == [kind |-> "none", recs |-> <<>>]
Panic == [kind |-> "panic", recs |-> <<>>]
\* if records.is_empty() { None } else { Some(records) }
SomeIfAny(recs) ==
    LET \* Option<Vec<Value>>, or the panic of an unwrap on None
        Some == [kind |-> "some", recs |-> recs]
    IN
                   IF recs = <<>> THEN None ELSE Some

\* ------------------------------------------------------ the SQL parsers
\* table_columns: the columns of the last CREATE TABLE of each table of the
\* chunk (NoCols: none was found)
TableColumns(stmts) ==
    [t \in SqlTables |->
        LET at == {i \in 1..Len(stmts) :
                      stmts[i].kind = "create" /\ stmts[i].table = t}
        IN  IF at = {} THEN NoCols
            ELSE stmts[CHOOSE i \in at : \A j \in at : j <= i].cols]
NoTableColumns(ddl) == \A t \in SqlTables : ddl[t] = NoCols

\* if let Some(key) = id_key { obj.remove(&key); }
RemoveIdKey(obj, cols, po) ==
    LET \* obj.keys().find(|k| k.eq_ignore_ascii_case("id")): the first such key in
        \* the order of the map, which is the order of insertion (the columns, in
        \* their order) or the byte order of the keys
        FirstIdKey ==
            LET ids == {k \in DOMAIN obj : IsIdKey(k)}
            IN  IF po
                THEN cols[CHOOSE i \in 1..Len(cols) :
                             /\ IsIdKey(cols[i])
                             /\ \A j \in 1..(i - 1) : ~IsIdKey(cols[j])]
                ELSE CHOOSE k \in ids : \A j \in ids : KeyRank(k) <= KeyRank(j)
    IN
    IF \E k \in DOMAIN obj : IsIdKey(k)
    THEN MapRemove(obj, FirstIdKey)
    ELSE obj

\* one row of `table` under the column names `cols`: skipped when the
\* number of values differs, else the object with `table` and the columns,
\* less its id key, pushed when obj.len() > 1
ParseRow(fmt, table, cols, width, po, stmt) ==
    IF width # Len(cols) THEN <<>>
    ELSE LET obj == InsertAll(MapInsert(NewMap, "table", table), cols,
                              DecodeValue(fmt, RawValue(fmt)), 1)
             stripped == RemoveIdKey(obj, cols, po)
         IN  IF Cardinality(DOMAIN stripped) > 1 THEN <<Emitted(stripped, stmt)>>
             ELSE <<>>

\* mysql.rs 57-192, sqlite.rs 61-180: the columns are those of the CREATE
\* TABLE; an INSERT of a table without one is skipped.  The insert_re of
\* sqlite.rs does not match an INSERT with a column list.
RECURSIVE DdlInsertLoop(_, _, _, _, _)
DdlInsertLoop(fmt, stmts, ddl, po, i) ==
    IF i > Len(stmts) THEN <<>>
    ELSE LET st == stmts[i]
             rows ==
                 IF st.kind # "insert" THEN <<>>
                 ELSE IF fmt = "sqlite" /\ st.explicit THEN <<>>
                 ELSE IF ddl[st.table] = NoCols THEN <<>>
                 ELSE ParseRow(fmt, st.table, ddl[st.table], st.width, po, i)
         IN  rows \o DdlInsertLoop(fmt, stmts, ddl, po, i + 1)

parse_mysql(stmts, po) ==
    SomeIfAny(DdlInsertLoop("mysql", stmts, TableColumns(stmts), po, 1))

\* sqlite.rs 52-55: no CREATE TABLE at all returns None
parse_sqlite(stmts, po) ==
    IF NoTableColumns(TableColumns(stmts)) THEN None
    ELSE SomeIfAny(DdlInsertLoop("sqlite", stmts, TableColumns(stmts), po, 1))

\* postgres.rs 14-91 (COPY public.t (cols) FROM stdin), oracle.rs 22-131
\* (Insert into t (cols) values (..)): both regexes need the column list
RECURSIVE ListedInsertLoop(_, _, _, _)
ListedInsertLoop(fmt, stmts, po, i) ==
    IF i > Len(stmts) THEN <<>>
    ELSE LET st == stmts[i]
             rows ==
                 IF st.kind = "insert" /\ st.explicit
                 THEN ParseRow(fmt, st.table, st.cols, st.width, po, i)
                 ELSE <<>>
         IN  rows \o ListedInsertLoop(fmt, stmts, po, i + 1)

parse_postgres(stmts, po) ==
    SomeIfAny(ListedInsertLoop("postgres", stmts, po, 1))
parse_oracle(stmts, po) ==
    SomeIfAny(ListedInsertLoop("oracle", stmts, po, 1))

\* mssql.rs 72-381: the column list of the INSERT, else
\* table_columns.get(table).unwrap()
MssqlUnwrapsNone(stmts, ddl) ==
    \E i \in 1..Len(stmts) :
        /\ stmts[i].kind = "insert"
        /\ ~stmts[i].explicit
        /\ ddl[stmts[i].table] = NoCols

RECURSIVE MssqlInsertLoop(_, _, _, _)
MssqlInsertLoop(stmts, ddl, po, i) ==
    IF i > Len(stmts) THEN <<>>
    ELSE LET st == stmts[i]
             insert_cols == IF st.explicit THEN st.cols ELSE ddl[st.table]
             rows ==
                 IF st.kind = "insert"
                 THEN ParseRow("mssql", st.table, insert_cols, st.width, po, i)
                 ELSE <<>>
         IN  rows \o MssqlInsertLoop(stmts, ddl, po, i + 1)

\* mssql.rs 62-65: no CREATE TABLE at all returns None before any INSERT
\* is looked at
parse_mssql(stmts, po) ==
    LET ddl == TableColumns(stmts)
    IN  IF NoTableColumns(ddl) THEN None
        ELSE IF MssqlUnwrapsNone(stmts, ddl) THEN Panic
        ELSE SomeIfAny(MssqlInsertLoop(stmts, ddl, po, 1))

\* ------------------------------------------------- the SurrealDB parser
\* a chunk of parse_database_export: the statements first..last of the
\* content, and whether its text starts with `INSERT [`
ChunkOf(first, last, prefixed) ==
    [first |-> first, last |-> last, prefixed |-> prefixed]

\* surreal.rs 82-89: the object is JSON: `table` is inserted and the record
\* is pushed.  surreal.rs 91-141: the key/value regex, `table`, remove("id"),
\* pushed when record.len() > 1
ParseItem(item, table_name, stmt) ==
    IF item.json
    THEN <<Emitted(MapInsert(InsertAll(NewMap, item.keys, "v", 1),
                             "table", table_name), stmt)>>
    ELSE LET record == MapRemove(
                 MapInsert(InsertAll(NewMap, item.keys, "v", 1),
                           "table", table_name), "id")
         IN  IF Cardinality(DOMAIN record) > 1 THEN <<Emitted(record, stmt)>> ELSE <<>>

RECURSIVE ParseItems(_, _, _, _)
ParseItems(items, table_name, stmt, i) ==
    IF i > Len(items) THEN <<>>
    ELSE ParseItem(items[i], table_name, stmt)
             \o ParseItems(items, table_name, stmt, i + 1)

\* surreal.rs 45-54: the last header of the chunk that starts before the
\* INSERT, else unknown_table
SectionTable(stmts, chunk, at) ==
    LET before == {i \in chunk.first..(at - 1) : stmts[i].kind = "header"}
    IN  IF before = {} THEN "unknown_table"
        ELSE stmts[CHOOSE i \in before : \A j \in before : j <= i].table

\* surreal.rs 19-33: the INSERT [ .. ]; statements of the chunk; the one
\* the chunk starts with is one only when its `INSERT [` is there
ChunkInserts(stmts, chunk) ==
    {i \in chunk.first..chunk.last :
        /\ stmts[i].kind = "insert"
        /\ chunk.prefixed}

RECURSIVE SurrealInsertLoop(_, _, _)
SurrealInsertLoop(stmts, chunk, i) ==
    IF i > chunk.last THEN <<>>
    ELSE LET rows ==
                 IF i \in ChunkInserts(stmts, chunk)
                 THEN ParseItems(stmts[i].items,
                                 SectionTable(stmts, chunk, i), i, 1)
                 ELSE <<>>
         IN  rows \o SurrealInsertLoop(stmts, chunk, i + 1)

parse_surreal(stmts, chunk) ==
    IF ChunkInserts(stmts, chunk) = {} THEN None
    ELSE SomeIfAny(SurrealInsertLoop(stmts, chunk, chunk.first))

\* ------------------------------------------------ parse_database_export
\* mod.rs 167-177
parse_with_regex(stmts, chunk, fmt, po) ==
    LET part == SubSeq(stmts, chunk.first, chunk.last)
    IN  CASE fmt = "surreal" -> parse_surreal(stmts, chunk)
          [] fmt = "mysql" -> parse_mysql(part, po)
          [] fmt = "postgres" -> parse_postgres(part, po)
          [] fmt = "oracle" -> parse_oracle(part, po)
          [] fmt = "sqlite" -> parse_sqlite(part, po)
          [] fmt = "mssql" -> parse_mssql(part, po)
          [] OTHER -> None

\* mod.rs 37-40, 46: content.split("INSERT [") less its blank pieces; only
\* a SurrealDB export holds `INSERT [`.  The first piece is the text before
\* the first INSERT; every later piece starts at an INSERT and runs up to
\* the next one.  `INSERT [` is put back on every chunk but the one at
\* index 0 of what the filter left.
InsertsAt(stmts) == {i \in 1..Len(stmts) : stmts[i].kind = "insert"}
PieceStarts(stmts, fmt) ==
    IF fmt = "surreal"
    THEN (IF 1 \in InsertsAt(stmts) THEN {} ELSE {1}) \cup InsertsAt(stmts)
    ELSE {1}
SplitChunks(stmts, fmt) ==
    LET PieceEnd(first) ==
            LET later == {i \in PieceStarts(stmts, fmt) : i > first}
            IN  IF later = {} THEN Len(stmts)
                ELSE (CHOOSE i \in later : \A j \in later : i <= j) - 1
        \* the chunks in their order: the i-th (0-based) starts at the statement
        \* with i piece starts before it
        ChunkIndex(first) ==
            Cardinality({i \in PieceStarts(stmts, fmt) : i < first})
    IN
    LET starts == PieceStarts(stmts, fmt)
    IN  [k \in 1..Cardinality(starts) |->
            LET first == CHOOSE i \in starts :
                             ChunkIndex(i) = k - 1
            IN  ChunkOf(first, PieceEnd(first), k - 1 > 0)]

\* mod.rs 47-59: the first `TABLE DATA: <t>` of the chunk's text, if any,
\* becomes last_table
LastTable(stmts, chunk, fmt, last_table) ==
    LET heads == {i \in chunk.first..chunk.last : stmts[i].kind = "header"}
    IN  IF fmt = "surreal" /\ heads # {}
        THEN stmts[CHOOSE i \in heads : \A j \in heads : i <= j].table
        ELSE last_table

\* mod.rs 63-72: a SurrealDB record gets last_table as its `table`
Retag(recs, fmt, last_table) ==
    IF fmt = "surreal"
    THEN [i \in 1..Len(recs) |->
             Emitted(MapInsert(recs[i].obj, "table", last_table),
                     recs[i].stmt)]
    ELSE recs

\* mod.rs 45-87
RECURSIVE ChunkLoop(_, _, _, _, _, _)
ChunkLoop(stmts, chunks, fmt, po, last_table, k) ==
    IF k > Len(chunks) THEN <<>>
    ELSE LET lt == LastTable(stmts, chunks[k], fmt, last_table)
             r == parse_with_regex(stmts, chunks[k], fmt, po)
         IN  Retag(r.recs, fmt, lt)
                 \o ChunkLoop(stmts, chunks, fmt, po, lt, k + 1)

\* the migration workflow has not been entered
WorkflowIdle ==
    /\ records = <<>>
    /\ args = [provider |-> "service", local_tei |-> FALSE, chunk_size |-> 2,
               batch_size |-> 2, max_payload_size_mb |-> 1]
    /\ pc = "idle"
    /\ teiProc = "none"
    /\ chunkDone = {}
    /\ chunkRes = <<>>
    /\ embedding_count = 0
    /\ prepared = <<>>
    /\ grouped = [t \in Tables |-> <<>>]
    /\ todo = {}
    /\ curTable = NoTable
    /\ ci = 1
    /\ bi = 1
    /\ storeLog = <<>>
    /\ processed_count = 0
    /\ result = "running"
    /\ failStage = "none"
    /\ statsProcessed = 0
    /\ sawCountMismatch = FALSE
    /\ sawDimMismatch = FALSE
    /\ sawFailure = FALSE

InitParse ==
    LET Formats == {"surreal", "mysql", "postgres", "oracle", "sqlite", "mssql"}
    IN
    /\ WorkflowIdle
    /\ DbIdle
    /\ UnitsIdle
    /\ format \in Formats
    /\ content \in Contents(format)
    /\ preserve_order \in BOOLEAN
    /\ all_records = <<>>
    /\ parse_result = "pending"

\* mod.rs 24-35: an MSSQL export is parsed in one piece
ParseExportMssql ==
    /\ parse_result = "pending"
    /\ format = "mssql"
    /\ LET r == parse_with_regex(content, ChunkOf(1, Len(content), FALSE),
                                 format, preserve_order)
       IN  /\ all_records' = r.recs
           /\ parse_result' = IF r.kind = "panic" THEN "panic" ELSE "ok"
    /\ UNCHANGED <<workflowVars, dbVars, unitVars, format, content, preserve_order>>

\* mod.rs 36-90: every other export is parsed chunk by chunk
ParseExportChunked ==
    /\ parse_result = "pending"
    /\ format # "mssql"
    /\ all_records' = ChunkLoop(content, SplitChunks(content, format), format,
                                preserve_order, "default", 1)
    /\ parse_result' = "ok"
    /\ UNCHANGED <<workflowVars, dbVars, unitVars, format, content, preserve_order>>

NextParse == ParseExportMssql \/ ParseExportChunked

SpecParse == InitParse /\ [][NextParse]_vars

\* ------------------------------------------- properties of the parsers
ParseReturned == parse_result = "ok"
EmittedObjs == {all_records[i].obj : i \in 1..Len(all_records)}

\* C11: every record parse_database_export returns has a `table` entry that
\* is a non-empty string and no key equal to `id` ignoring case.
C11_TableAndNoIdKey ==
    ParseReturned =>
        \A obj \in EmittedObjs :
            /\ "table" \in DOMAIN obj
            /\ obj["table"] # ""
            /\ \A k \in DOMAIN obj : ~IsIdKey(k)

\* C12: no returned record is left without a field other than `table` once
\* its id keys are set aside.
C12_NeverOnlyTable ==
    ParseReturned =>
        \A obj \in EmittedObjs :
            \E k \in DOMAIN obj : k # "table" /\ ~IsIdKey(k)

\* the table of the most recent header before statement i of the content
PrecedingHeader(stmts, i) ==
    LET before == {j \in 1..(i - 1) : stmts[j].kind = "header"}
    IN  IF before = {} THEN "unknown_table"
        ELSE stmts[CHOOSE j \in before : \A h \in before : h <= j].table

\* C13: every record of a SurrealDB export carries the table of the most
\* recent header before its own INSERT, unknown_table when there is none.
C13_TaggedByPrecedingHeader ==
    (ParseReturned /\ format = "surreal") =>
        \A i \in 1..Len(all_records) :
            all_records[i].obj["table"] =
                PrecedingHeader(content, all_records[i].stmt)

\* the INSERTs of a table without CREATE TABLE whose row has as many values
\* as the column list it is read under, and a column that is not an id
OrphanInserts(listed) ==
    {i \in 1..Len(content) :
        /\ content[i].kind = "insert"
        /\ TableColumns(content)[content[i].table] = NoCols
        /\ content[i].explicit = listed
        /\ listed => /\ content[i].width = Len(content[i].cols)
                     /\ \E c \in Range(content[i].cols) : ~IsIdKey(c)
        /\ ~listed => content[i].width >= 2}

\* id, name, description, columnN for a row of the given width
PositionalNames(w) ==
    [j \in 1..w |-> CASE j = 1 -> "id" [] j = 2 -> "name"
                      [] j = 3 -> "description" [] OTHER -> "columnN"]

\* C14: without a CREATE TABLE the MySQL and MSSQL parsers neither abort nor
\* drop rows: a row with a column list is returned under those columns with
\* its string decoded, a row without one under id,name,description,columnN.
C14_NoDdlKeepsRows ==
    (format \in {"mysql", "mssql"} /\ parse_result # "pending") =>
        /\ parse_result = "ok"
        /\ \A i \in OrphanInserts(TRUE) :
              \E j \in 1..Len(all_records) :
                  /\ all_records[j].stmt = i
                  /\ all_records[j].obj["table"] = content[i].table
                  /\ DOMAIN all_records[j].obj \ {"table"}
                         = {c \in Range(content[i].cols) : ~IsIdKey(c)}
                  /\ \A c \in DOMAIN all_records[j].obj \ {"table"} :
                         all_records[j].obj[c] = "it's"
        /\ \A i \in OrphanInserts(FALSE) :
              \E j \in 1..Len(all_records) :
                  /\ all_records[j].stmt = i
                  /\ DOMAIN all_records[j].obj \ {"table"}
                         = {c \in Range(PositionalNames(content[i].width)) :
                               ~IsIdKey(c)}

\* ------------------------------- the metadata handed to the driver
\* C15: the metadata of every item handed to store_vector is the parsed
\* Record unchanged, its `table` entry included.
C15_MetadataIsRecord ==
    \A q \in LogPositions :
        /\ LogItem(q).meta.hasTable
        /\ LogItem(q).meta.len = records[LogItem(q).meta.rec].len

\* ======================================================================
\* The vector store drivers (src/src/db/): construction and store_vector of
\* the six implementations against a backend that another client may be
\* provisioning at the same time.  A vector is its sequence of components:
\* the component j of an input vector is the number j, 0 is 0.0 and
\* TenthValue stands for 0.1.  A store_vector call is taken request by
\* request: the existence check, the create request and the write are
\* separate steps, and the other client may act between them.
\* ======================================================================

\* ---------------------------------------------------------------- bounds
\* store_vector calls made on one driver
MaxCalls == 2

\* 0.1, the dummy component of chroma.rs 153 and pinecone.rs 173
TenthValue == 0 - 1

\* ------------------------------------------------------------ input sets

\* table.to_lowercase()
ToLowercase(t) == IF t = "Users" THEN "users" ELSE t

\* the batches of the k-th call: one item, or a well-formed item and a
\* second.  An item is its id, its vector (of a length from 0 to D + 1)
\* and whether its metadata holds an `id` entry of its own
Batches(k) ==
    LET InputVec(n) == [j \in 1..n |-> j]
        DbItem(id, n, metaId) ==
            [id |-> id, vec |-> InputVec(n), metaId |-> metaId]
    IN  {<<DbItem(10 * k + 1, n, m)>> : n \in 0..(D + 1), m \in BOOLEAN}
        \cup
        {<<DbItem(10 * k + 1, D, FALSE), DbItem(10 * k + 2, n, FALSE)>> :
            n \in {0, D}}

\* --------------------------------------------------------- vector shaping
\* let mut fixed_vec = vec![0.0; dimension]; the first dimension components
\* of vec are copied into it
PadOrTruncate(vec) ==
    [j \in 1..D |-> IF j <= Len(vec) THEN vec[j] ELSE 0]

\* qdrant.rs 138-147, redis.rs 251 and 294, surreal.rs 134-137: the vector
\* is serialized as it is
ShapedVector(drv, vec) ==
    LET \* chroma.rs 148-170
        ChromaVector ==
            IF vec = <<>> THEN <<TenthValue>>
            ELSE IF Len(vec) # D THEN PadOrTruncate(vec)
            ELSE vec
        \* milvus.rs 271-282
        MilvusVector ==
            IF Len(vec) = D THEN vec ELSE [j \in 1..D |-> 0]
        \* pinecone.rs 171-188
        PineconeVector ==
            IF vec = <<>> THEN [j \in 1..D |-> TenthValue]
            ELSE IF Len(vec) # D THEN PadOrTruncate(vec)
            ELSE vec
    IN
    CASE drv = "chroma" -> ChromaVector
      [] drv = "milvus" -> MilvusVector
      [] drv = "pinecone" -> PineconeVector
      [] OTHER -> vec

\* --------------------------------------------------------- metric mapping
\* milvus.rs 32-44, on args.metric.to_uppercase()
MilvusMetric(m) ==
    CASE m = "cosine" -> "COSINE"
      [] m = "ip" -> "IP"
      [] m \in {"l2", "euclidean"} -> "L2"
      [] OTHER -> "error"
\* redis.rs 106-116
map_metric_to_redis(m) ==
    CASE m = "cosine" -> "COSINE"
      [] m \in {"l2", "euclidean"} -> "L2"
      [] m \in {"ip", "dotproduct"} -> "IP"
      [] OTHER -> "COSINE"

\* ---------------------------------------------------------- provisioning
\* the container new() ensures: QdrantDatabase::new the collection
\* args.collection, PineconeDatabase::new the index args.indexes,
\* SurrealDatabase::new the namespace and the database
NewLevels(drv) ==
    CASE drv = "qdrant" -> <<"configured">>
      [] drv = "pinecone" -> <<"configured">>
      [] drv = "surreal" -> <<"namespace">>
      [] OTHER -> <<>>
\* the name under which a container is addressed
ContainerName(drv, level, table) ==
    CASE level \in {"database", "namespace", "configured"} -> "args"
      [] drv \in {"redis", "surreal"} -> ToLowercase(table)
      [] OTHER -> table
Exists(cs, level, name) ==
    \E c \in cs : c.level = level /\ c.name = name

\* whether the driver looks for the container before it asks to create it
\* (GET, list, get_stats, FT.INFO) or sends the create request at once
\* (DEFINE .. IF NOT EXISTS, POST /indexes)
ChecksFirst(drv) == drv \in {"chroma", "milvus", "qdrant", "redis"}

\* what the driver does with the answer to a create request: go on, or
\* return Err.  created: the container was made; exists: the backend says
\* it is already there (409, "Index already exists", a non-zero code);
\* rejected: any other refusal
GoesOn(drv, reply) ==
    CASE reply \in {"created", "same"} -> TRUE
      [] reply = "exists" -> drv \in {"redis", "pinecone", "surreal"}
      [] OTHER -> drv = "surreal"

\* the answers of the backend to a create request.  For a container that
\* is there: exists, or same when it accepts the request without doing
\* anything (IF NOT EXISTS; Milvus for a collection of the same schema)
CreateReplies(drv, level, name) ==
    LET ExistsReplies ==
            IF drv = "surreal" THEN {"same"}
            ELSE IF drv = "milvus" /\ level = "collection"
            THEN {"same", "exists"}
            ELSE {"exists"}
    IN  IF Exists(containers, level, name) THEN ExistsReplies
        ELSE {"created", "rejected"}

\* the backend after the create request
Created(drv, level, name, items, reply) ==
    LET \* the metric a driver puts in its create request: qdrant.rs 40 and 118
        \* ("distance": "Cosine"), chroma.rs 115 and pinecone.rs 40 (args.metric as
        \* it is); a SurrealDB table has none
        CreateMetric(m) ==
            CASE drv = "milvus" -> MilvusMetric(m)
              [] drv = "redis" -> map_metric_to_redis(m)
              [] drv = "qdrant" -> "Cosine"
              [] drv \in {"chroma", "pinecone"} -> m
              [] OTHER -> "none"
        \* the dimension of the create request: qdrant.rs 112 takes the length of
        \* the first vector of the batch; a database or a table has none
        CreateDim ==
            CASE level \in {"database", "namespace", "table"} -> 0
              [] drv = "qdrant" /\ level = "collection" -> Len(items[1].vec)
              [] OTHER -> D
    IN
    IF reply = "created"
    THEN containers \cup
            {[level |-> level, name |-> name,
              dim |-> CreateDim,
              metric |-> IF level \in {"database", "namespace", "table"}
                         THEN "none" ELSE CreateMetric(dargs.metric),
              by |-> "driver"]}
    ELSE containers

InitDriver ==
    LET Drivers == {"chroma", "qdrant", "milvus", "pinecone", "redis", "surreal"}
        \* --metric, --group-redis and the table of the store_vector calls
        DriverArgs ==
            LET Metrics ==
                    {"cosine", "euclidean", "l2", "dotproduct", "ip", "manhattan"}
            IN  {[metric |-> m, group_redis |-> g, table |-> t] :
                    m \in Metrics, g \in BOOLEAN, t \in RedisKeys}
    IN
    /\ WorkflowIdle
    /\ ParseIdle
    /\ UnitsIdle
    /\ driver \in Drivers
    /\ dargs \in {a \in DriverArgs : a.group_redis => driver = "redis"}
    /\ dpc = "new"
    /\ call = NoCall
    /\ ncalls = 0
    /\ newRejected = FALSE
    /\ containers = {}
    /\ sent = <<>>
    /\ kv = [k \in RedisKeys |-> <<>>]
    /\ returns = <<>>

\* XDatabase::new(args).  milvus.rs 32-44 maps the metric or fails;
\* qdrant.rs 26-78 looks for args.collection and creates it on 404;
\* pinecone.rs 33-101 posts the index and takes 409 as success;
\* surreal.rs 28-69 defines namespace and database and only logs a refusal;
\* chroma.rs 17-39 and redis.rs 16-77 provision nothing
New ==
    /\ dpc = "new"
    /\ \/ /\ NewLevels(driver) = <<>>
          /\ dpc' = IF driver = "milvus" /\ MilvusMetric(dargs.metric) = "error"
                    THEN "failed" ELSE "ready"
          /\ UNCHANGED <<containers, newRejected>>
       \/ /\ NewLevels(driver) # <<>>
          /\ ChecksFirst(driver)
          /\ Exists(containers, NewLevels(driver)[1], "args")
          /\ dpc' = "ready"
          /\ UNCHANGED <<containers, newRejected>>
       \/ /\ NewLevels(driver) # <<>>
          /\ ~(ChecksFirst(driver)
                 /\ Exists(containers, NewLevels(driver)[1], "args"))
          /\ \E reply \in CreateReplies(driver, NewLevels(driver)[1], "args") :
                /\ containers' = Created(driver, NewLevels(driver)[1], "args",
                                         <<>>, reply)
                /\ newRejected' = (reply = "rejected")
                /\ dpc' = IF GoesOn(driver, reply) THEN "ready"
                          ELSE "failed"
    /\ UNCHANGED <<workflowVars, parseVars, unitVars, driver, dargs, call, ncalls,
                   sent, kv, returns>>

StoreLevels ==
    LET \* the containers store_vector ensures, in the order of its requests
        Levels(drv, group_redis) ==
            CASE drv \in {"chroma", "milvus"} -> <<"database", "collection">>
              [] drv = "qdrant" -> <<"collection">>
              [] drv = "redis" /\ ~group_redis -> <<"index">>
              [] drv = "surreal" -> <<"table">>
              [] OTHER -> <<>>
    IN
               Levels(driver, dargs.group_redis)

\* another client of the backend creates one of the containers this driver
\* addresses
OtherCreates ==
    LET Targets ==
            {<<NewLevels(driver)[i], "args">> :
                i \in 1..Len(NewLevels(driver))} \cup
            {<<StoreLevels[i],
               ContainerName(driver, StoreLevels[i], dargs.table)>> :
                i \in 1..Len(StoreLevels)}
    IN  /\ dpc \in {"new", "ready", "check", "create"}
        /\ \E t \in Targets :
              /\ ~Exists(containers, t[1], t[2])
              /\ containers' =
                     containers \cup
                         {[level |-> t[1], name |-> t[2], dim |-> D,
                           metric |-> "other", by |-> "other"]}
        /\ UNCHANGED <<workflowVars, parseVars, unitVars, driver, dargs, dpc, call,
                       ncalls, newRejected, sent, kv, returns>>

CurrentLevel == StoreLevels[call.step]
CurrentName == ContainerName(driver, CurrentLevel, dargs.table)

\* store_vector(table, items) is entered with a batch that is not empty
BeginStore ==
    /\ dpc = "ready"
    /\ ncalls < MaxCalls
    /\ \E items \in Batches(ncalls + 1) :
          call' = [items |-> items,
                   step |-> IF StoreLevels = <<>> THEN 0 ELSE 1,
                   sawExists |-> FALSE, sawRejected |-> FALSE]
    /\ dpc' = IF StoreLevels = <<>> THEN "write"
              ELSE IF ChecksFirst(driver) THEN "check" ELSE "create"
    /\ UNCHANGED <<workflowVars, parseVars, unitVars, driver, dargs, ncalls,
                   newRejected, containers, sent, kv, returns>>

\* the next container to ensure, or the write
Proceed(c) ==
    IF c.step < Len(StoreLevels)
    THEN /\ call' = [c EXCEPT !.step = c.step + 1]
         /\ dpc' = IF ChecksFirst(driver) THEN "check" ELSE "create"
    ELSE /\ call' = c
         /\ dpc' = "write"

\* the call returns
Return(c, ok, reason) ==
    /\ returns' = Append(returns,
                         [ok |-> ok, reason |-> reason, items |-> c.items,
                          sawExists |-> c.sawExists,
                          sawRejected |-> c.sawRejected])
    /\ call' = NoCall
    /\ ncalls' = ncalls + 1
    /\ dpc' = "ready"

\* chroma.rs 56-65 and 84-104, milvus.rs 129-139 and 152-181, qdrant.rs
\* 104-111, redis.rs 126-133: is the container there
CheckContainer ==
    /\ dpc = "check"
    /\ IF Exists(containers, CurrentLevel, CurrentName)
       THEN Proceed(call)
       ELSE dpc' = "create" /\ call' = call
    /\ UNCHANGED <<workflowVars, parseVars, unitVars, driver, dargs, ncalls,
                   newRejected, containers, sent, kv, returns>>

\* chroma.rs 66-82 and 105-142, milvus.rs 141-147 and 183-263, qdrant.rs
\* 111-136, redis.rs 135-218, surreal.rs 74-104: the create request and
\* what the driver makes of the answer
CreateContainer ==
    /\ dpc = "create"
    /\ \E reply \in CreateReplies(driver, CurrentLevel, CurrentName) :
          LET c == [call EXCEPT
                       !.sawExists = @ \/ reply = "exists",
                       !.sawRejected = @ \/ reply = "rejected"]
          IN  /\ containers' = Created(driver, CurrentLevel, CurrentName,
                                       call.items, reply)
              /\ IF GoesOn(driver, reply)
                 THEN Proceed(c) /\ UNCHANGED <<ncalls, returns>>
                 ELSE Return(c, FALSE, "provision")
    /\ UNCHANGED <<workflowVars, parseVars, unitVars, driver, dargs, newRejected, sent,
                   kv>>

\* redis.rs 246-261: `id`, `vector`, then every metadata entry but
\* `vector`; 0 is the `id` entry of a metadata object that has one
GroupedDocs(items) ==
    [j \in 1..Len(items) |->
        [id |-> IF items[j].metaId THEN 0 ELSE items[j].id,
         vector |-> items[j].vec]]

\* the write request is accepted and store_vector returns Ok; in grouped
\* mode JSON.SET puts the document at table:<normalized_table>
StoreWriteOk ==
    /\ dpc = "write"
    /\ sent' = Append(sent,
           [table |-> dargs.table,
            items |-> [j \in 1..Len(call.items) |->
                         [id |-> call.items[j].id,
                          input |-> call.items[j].vec,
                          vector |-> ShapedVector(driver, call.items[j].vec)]]])
    /\ kv' = IF driver = "redis" /\ dargs.group_redis
             THEN [kv EXCEPT ![ToLowercase(dargs.table)] =
                                  GroupedDocs(call.items)]
             ELSE kv
    /\ Return(call, TRUE, "none")
    /\ UNCHANGED <<workflowVars, parseVars, unitVars, driver, dargs, newRejected,
                   containers>>

\* the write request fails and store_vector returns Err; chroma.rs 224-231
\* returns Ok on "Error in compaction"
StoreWriteErr ==
    /\ dpc = "write"
    /\ \/ Return(call, FALSE, "write")
       \/ driver = "chroma" /\ Return(call, TRUE, "compaction")
    /\ UNCHANGED <<workflowVars, parseVars, unitVars, driver, dargs, newRejected,
                   containers, sent, kv>>

NextDriver ==
    \/ New
    \/ OtherCreates
    \/ BeginStore
    \/ CheckContainer
    \/ CreateContainer
    \/ StoreWriteOk
    \/ StoreWriteErr

SpecDriver == InitDriver /\ [][NextDriver]_vars

ShapingDrivers == {"chroma", "qdrant", "milvus", "pinecone", "redis"}
SentPositions ==
    {q \in (1..Len(sent)) \X (1..2) : q[2] <= Len(sent[q[1]].items)}
SentItem(q) == sent[q[1]].items[q[2]]

\* the vector is the input padded with zeros or truncated to D components
ShapedToD(input, out) ==
    /\ Len(out) = D
    /\ \A j \in 1..D :
          out[j] = IF j <= Min(Len(input), D) THEN input[j] ELSE 0

\* C16: Chroma, Qdrant, Milvus, Pinecone and Redis send to the backend, for
\* every item, a vector of exactly D components: the first min(len, D)
\* components of the input vector, followed by zeros
C16_SentVectorsHaveD ==
    driver \in ShapingDrivers =>
        \A q \in SentPositions : ShapedToD(SentItem(q).input, SentItem(q).vector)

MappingDrivers == {"milvus", "redis", "qdrant"}
\* the metric the configured value stands for, cosine for an unknown one
ExpectedFamily(m) ==
    CASE m \in {"euclidean", "l2"} -> "l2"
      [] m \in {"dotproduct", "ip"} -> "ip"
      [] OTHER -> "cosine"
\* the metric a backend name stands for
BackendFamily(name) ==
    CASE name \in {"COSINE", "Cosine"} -> "cosine"
      [] name \in {"L2", "Euclid"} -> "l2"
      [] name \in {"IP", "Dot"} -> "ip"
      [] OTHER -> "none"
DriverCreated == {c \in containers : c.by = "driver"}
WithMetric == {c \in DriverCreated : c.metric # "none"}

\* C17: in a driver that maps the metric (Milvus, Redis, Qdrant) no
\* configured metric value makes the construction fail, and every
\* collection or index the driver creates has the backend metric the
\* configured value maps to: cosine, l2 for euclidean and l2, ip for
\* dotproduct and ip, cosine for any other value
C17_MetricMapped ==
    driver \in MappingDrivers =>
        /\ (driver = "milvus" => dpc # "failed")
        /\ \A c \in WithMetric :
              BackendFamily(c.metric) = ExpectedFamily(dargs.metric)

WithDimension ==
    {c \in DriverCreated : c.level \in {"collection", "index", "configured"}}

\* C18: for every driver, over any sequence of store_vector calls to one
\* table and with another creator of the same containers at work, a
\* collection or index the driver creates has dimension D, and a call
\* whose create requests were answered only with "already exists" does not
\* return a provisioning error
C18_ProvisioningIdempotent ==
    /\ \A c \in WithDimension : c.dim = D
    /\ \A k \in 1..Len(returns) :
          (returns[k].sawExists /\ ~returns[k].sawRejected)
              => returns[k].reason # "provision"

\* C19: a namespace, database, table, collection or index definition that
\* the backend rejects is fatal: a construction that saw one has failed,
\* and a store_vector call that saw one returned the provisioning error
\* without writing its batch
C19_RejectedIsFatal ==
    /\ newRejected => dpc = "failed"
    /\ \A k \in 1..Len(returns) :
          returns[k].sawRejected =>
              ~returns[k].ok /\ returns[k].reason = "provision"

\* the calls that wrote their batch
Written == {k \in 1..Len(returns) : returns[k].ok /\ returns[k].reason = "none"}
LastWritten == CHOOSE k \in Written : \A l \in Written : l <= k
\* the records of a batch, each with its own id
OwnDocs(items) ==
    [j \in 1..Len(items) |-> [id |-> items[j].id, vector |-> items[j].vec]]

\* C20: in Redis grouped mode the document at key table:<T> is the array of
\* the records of the last batch written for T, each with its own id
\* under `id`, and nothing of an earlier batch
C20_GroupedDocument ==
    (driver = "redis" /\ dargs.group_redis /\ dpc = "ready") =>
        kv[dargs.table] = IF Written = {} THEN <<>>
                          ELSE OwnDocs(returns[LastWritten].items)

\* ======================================================================
\* parser/mod.rs detect_format and parse_regex/mod.rs clean_html_in_value
\* ======================================================================

MaxPieces == 2
MaxCleanings == 2

\* mod.rs 93-165.  Of the SQLite check, the branch on BEGIN TRANSACTION; is
\* left out: no content of SignatureSets holds that text
detect_format(path, c) ==
    IF path = "dump.surql" THEN "surreal"
    ELSE IF \/ "REM INSERTING into" \in c
            \/ {"CREATE TABLE \"", "PCTFREE", "TABLESPACE"} \subseteq c
         THEN "oracle"
    ELSE IF "COPY public." \in c THEN "postgres"
    ELSE IF "sqlite_sequence" \in c THEN "sqlite"
    ELSE IF "CREATE TABLE [dbo]." \in c \/ "GO" \in c THEN "mssql"
    ELSE IF "ENGINE=InnoDB" \in c \/ "LOCK TABLES" \in c THEN "mysql"
    ELSE "json"

\* html2text::from_read(..).replace('\n', " ").split_whitespace().join(" "):
\* the tags are rendered (a line break becomes white space, which the
\* joining removes) and the character references are decoded
RECURSIVE Html2Text(_)
Html2Text(s) ==
    IF s = <<>> THEN <<>>
    ELSE LET rest == Html2Text(Tail(s))
         IN  CASE Head(s) = "<br>" -> rest
               [] Head(s) = "&lt;br&gt;" -> <<"<br>">> \o rest
               [] OTHER -> <<Head(s)>> \o rest

\* parse_regex/mod.rs 9-36; s.contains('<') && s.contains('>')
RECURSIVE clean_html_in_value(_)
clean_html_in_value(v) ==
    CASE v.kind = "string" ->
            IF \E i \in 1..Len(v.s) : v.s[i] = "<br>"
            THEN [v EXCEPT !.s = Html2Text(v.s)]
            ELSE v
      [] v.kind \in {"array", "object"} ->
            [v EXCEPT !.items =
                [i \in 1..Len(v.items) |-> clean_html_in_value(v.items[i])]]
      [] OTHER -> v

InitUnits ==
    LET \* the texts detect_format looks for, as far as they decide between the
        \* classes; a content is the set of those it holds, and one that holds
        \* `CREATE TABLE "` or `CREATE TABLE [dbo].` holds `CREATE TABLE`
        SignatureSets ==
            LET Texts == {"REM INSERTING into", "CREATE TABLE \"", "PCTFREE",
                          "TABLESPACE", "COPY public.", "sqlite_sequence",
                          "CREATE TABLE", "ENGINE=InnoDB", "CREATE TABLE [dbo].",
                          "GO", "LOCK TABLES"}
            IN  {c \in SUBSET Texts :
                    ({"CREATE TABLE \"", "CREATE TABLE [dbo]."} \cap c # {})
                        => "CREATE TABLE" \in c}
        \* serde_json's Value: a string, a number, an array, an object (its values
        \* in key order).  A string is its sequence of pieces: a word, a tag, a tag
        \* written with character references
        JsonValues ==
            LET Pieces == {"w", "<br>", "&lt;br&gt;"}
                HtmlStrings == UNION {[1..n -> Pieces] : n \in 0..MaxPieces}
                JsonValue(kind, s, items) == [kind |-> kind, s |-> s, items |-> items]
                Leaves == {JsonValue("string", s, <<>>) : s \in HtmlStrings}
                              \cup {JsonValue("number", <<>>, <<>>)}
                Arrays == {JsonValue("array", <<>>, l) :
                              l \in UNION {[1..n -> Leaves] : n \in 0..1}}
                Inner == Leaves \cup Arrays
            IN  Inner \cup {JsonValue("object", <<>>, <<v>>) : v \in Inner}
    IN
    /\ WorkflowIdle
    /\ ParseIdle
    /\ DbIdle
    /\ \/ /\ file_path \in {"dump.surql", "dump.sql"}
          /\ signatures \in SignatureSets
          /\ val = [kind |-> "number", s |-> <<>>, items |-> <<>>]
       \/ /\ file_path = "dump.sql"
          /\ signatures = {}
          /\ val \in JsonValues
    /\ detected = ""
    /\ cleanCount = 0
    /\ ServiceIdle
    /\ ClientsIdle

\* main.rs 64: let format = detect_format(&file_path, &content)
DetectFormat ==
    /\ detected = ""
    /\ detected' = detect_format(file_path, signatures)
    /\ UNCHANGED <<workflowVars, parseVars, dbVars, serviceVars, clientVars,
                   file_path, signatures, val, cleanCount>>

\* clean_html_in_value(&mut val), once more
CleanHtml ==
    /\ cleanCount < MaxCleanings
    /\ val' = clean_html_in_value(val)
    /\ cleanCount' = cleanCount + 1
    /\ UNCHANGED <<workflowVars, parseVars, dbVars, serviceVars, clientVars,
                   file_path, signatures, detected>>

NextUnits == DetectFormat \/ CleanHtml

SpecUnits == InitUnits /\ [][NextUnits]_vars

Classes ==
    {"mssql", "mysql", "postgres", "oracle", "sqlite", "surreal", "unknown"}
\* the class whose check is the first to match, in the order .surql suffix,
\* Oracle, Postgres, SQLite, MSSQL, MySQL
FirstMatch(path, c) ==
    LET matches ==
            <<path = "dump.surql",
              \/ "REM INSERTING into" \in c
              \/ {"CREATE TABLE \"", "PCTFREE", "TABLESPACE"} \subseteq c,
              "COPY public." \in c,
              "sqlite_sequence" \in c,
              "CREATE TABLE [dbo]." \in c \/ "GO" \in c,
              "ENGINE=InnoDB" \in c \/ "LOCK TABLES" \in c>>
        order == <<"surreal", "oracle", "postgres", "sqlite", "mssql",
                   "mysql">>
        hits == {i \in 1..6 : matches[i]}
    IN  IF hits = {} THEN "unknown"
        ELSE order[CHOOSE i \in hits : \A j \in hits : i <= j]

\* C21: detect_format returns the class of the first check that matches,
\* in the order .surql suffix, Oracle, Postgres, SQLite, MSSQL, MySQL; the
\* result is one of mssql, mysql, postgres, oracle, sqlite, surreal,
\* unknown, and it is unknown when no check matches
C21_FirstMatchingClass ==
    detected # "" =>
        /\ detected \in Classes
        /\ detected = FirstMatch(file_path, signatures)

\* C22: cleaning a value that has been cleaned leaves it as it is
C22_CleanIdempotent ==
    cleanCount >= 1 => clean_html_in_value(val) = val

\* ======================================================================
\* embedding/embeding.rs EmbeddingService::generate_single, called from
\* several threads (par_iter of process_batch_chunk, rayon chunks)
\* ======================================================================

NumCallers == 3

InitService ==
    LET \* a thread: where it is in generate_single, the value fetch_add gave it,
        \* the requests it has sent, and how its call ended
        NotCalling == [at |-> "outside", current |-> 0, attempt |-> 0, sent |-> 0,
                       exit |-> "none"]
    IN
    /\ WorkflowIdle
    /\ ParseIdle
    /\ DbIdle
    /\ ValuesIdle
    /\ ClientsIdle
    /\ ACTIVE_REQUESTS = 0
    /\ max_concurrency \in 1..2
    /\ caller = [c \in 1..NumCallers |-> NotCalling]

ServiceUnchanged ==
    UNCHANGED <<workflowVars, parseVars, dbVars, clientVars, file_path,
                signatures, detected, val, cleanCount, max_concurrency>>

\* a guard that does not give its slot back
DropGuardLeaked(n) == n

\* RequestGuard::drop, lines 88-93: fetch_sub(1) on an AtomicUsize, which
\* wraps below zero (0 - 1 stands for usize::MAX)
DropGuard(n) == IF n = 0 THEN 0 - 1 ELSE n - 1

\* the call returns and _guard goes out of scope
Leave(c, how) ==
    /\ caller' = [caller EXCEPT ![c].at = "returned", ![c].exit = how]
    /\ ACTIVE_REQUESTS' = DropGuard(ACTIVE_REQUESTS)

\* lines 82-86: fetch_add(1), then the comparison with max_concurrency
Enter(c) ==
    /\ caller[c].at = "outside"
    /\ ACTIVE_REQUESTS' = ACTIVE_REQUESTS + 1
    /\ caller' = [caller EXCEPT
                     ![c].current = ACTIVE_REQUESTS,
                     ![c].at = IF ACTIVE_REQUESTS >= max_concurrency
                               THEN "sleep" ELSE "loop"]
    /\ ServiceUnchanged

\* line 85: thread::sleep(100 ms) is over
Wake(c) ==
    /\ caller[c].at = "sleep"
    /\ caller' = [caller EXCEPT ![c].at = "loop"]
    /\ UNCHANGED ACTIVE_REQUESTS
    /\ ServiceUnchanged

\* lines 101-119: the next iteration of for attempt in 0..max_retries sends
\* its request
Send(c) ==
    /\ caller[c].at = "loop"
    /\ caller[c].attempt < MaxRetries
    /\ caller' = [caller EXCEPT ![c].at = "inflight",
                                ![c].sent = caller[c].sent + 1]
    /\ UNCHANGED ACTIVE_REQUESTS
    /\ ServiceUnchanged

\* lines 119-138: send()? and json()? return the error; a status that is
\* not a success and a body without an `embedding` array go on to the next
\* iteration; an `embedding` array is returned
Answer(c) ==
    /\ caller[c].at = "inflight"
    /\ \E reply \in {"transport", "status", "badjson", "noarray", "vec"} :
          IF reply \in {"status", "noarray"}
          THEN /\ caller' = [caller EXCEPT
                                ![c].at = "loop",
                                ![c].attempt = caller[c].attempt + 1]
               /\ UNCHANGED ACTIVE_REQUESTS
          ELSE Leave(c, reply)
    /\ ServiceUnchanged

\* line 141: Err("Failed to get embeddings after retries")
Exhausted(c) ==
    /\ caller[c].at = "loop"
    /\ caller[c].attempt = MaxRetries
    /\ Leave(c, "exhausted")
    /\ ServiceUnchanged

NextService ==
    \E c \in 1..NumCallers :
        \/ Enter(c)
        \/ Wake(c)
        \/ Send(c)
        \/ Answer(c)
        \/ Exhausted(c)

SpecService == InitService /\ [][NextService]_vars

Executing ==
    {c \in DOMAIN caller : caller[c].at \in {"sleep", "loop", "inflight"}}
InFlight == {c \in DOMAIN caller : caller[c].at = "inflight"}

\* C23: the number of requests in flight never exceeds max_concurrency
C23_InFlightWithinK == Cardinality(InFlight) <= max_concurrency

\* C29: ACTIVE_REQUESTS equals the number of generate_single calls that
\* are executing, under any interleaving of the callers and on every exit
\* path; it is 0 when no call is executing and never goes below 0
C29_CounterIsExecuting ==
    /\ ACTIVE_REQUESTS = Cardinality(Executing)
    /\ ACTIVE_REQUESTS >= 0

\* one call has ended by a transport error, one by a JSON error or after
\* the last retry, and one is still executing
C29_Witness ==
    /\ \E c \in DOMAIN caller : caller[c].exit = "transport"
    /\ \E c \in DOMAIN caller : caller[c].exit \in {"exhausted", "badjson"}
    /\ Executing # {}
    /\ ACTIVE_REQUESTS = 1

\* C26: a call of generate_single that returns an error has made
\* max_retries attempts, a failed attempt being followed by another one; no
\* call makes more than max_retries attempts
C26_RetriesBeforeError ==
    \A c \in DOMAIN caller :
        /\ caller[c].sent <= MaxRetries
        /\ caller[c].exit \in {"transport", "exhausted"}
               => caller[c].sent = MaxRetries

\* ======================================================================
\* embedding/models/tei.rs and google.rs: generate_embeddings_batch as the
\* sequence of its requests
\* ======================================================================

NumGoogleCalls == 2
\* the texts of a chunk
BatchTexts == 2
\* request_delay_ms, in ticks, and the last tick
RequestDelay == 2
MaxTime == 5
\* handle_tei.rs 141: timeout = 300 s, in ticks; line 145: recv_timeout(1 s)
Deadline == 3
RecvTimeout == 1
\* no line with `Ready` has arrived
NoLine == 0 - 1

InitClients ==
    /\ WorkflowIdle
    /\ ParseIdle
    /\ DbIdle
    /\ ValuesIdle
    /\ ServiceIdle
    /\ client \in {"tei", "google", "local_tei"}
    /\ server = [at |-> "outside", proc |-> "none", kills |-> 0,
                 recvFrom |-> 0, readyAt |-> NoLine, result |-> "none",
                 workflow |-> "none"]
    /\ tei \in {[n |-> n, at |-> "loop", retries |-> TeiRetries,
                  sends |-> 0, replies |-> <<>>, pauses |-> 0,
                  result |-> "none"] : n \in 1..BatchTexts}
    /\ google = [k \in 1..NumGoogleCalls |->
                    [at |-> "outside", i |-> 0, wakeAt |-> 0,
                     result |-> "none"]]
    /\ now = 0
    /\ requests = <<>>

ClientsUnchanged ==
    UNCHANGED <<workflowVars, parseVars, dbVars, serviceVars, file_path,
                signatures, detected, val, cleanCount, client>>

\* tei.rs 70: while retries > 0 { .. send().await
TeiSend ==
    /\ client = "tei"
    /\ tei.at = "loop"
    /\ tei.retries > 0
    /\ tei' = [tei EXCEPT !.at = "sent", !.sends = tei.sends + 1]
    /\ UNCHANGED <<google, now, requests, server>>
    /\ ClientsUnchanged

\* a client that also tries again after a status that is not a success
TeiRetriedOnStatus(kind) == kind \in {"transport", "status"}

\* tei.rs 117-123: the arm of the match that goes round the loop again
TeiRetried(kind) == kind = "transport"

\* tei.rs 71-123: Err(e) of send() takes a retry and sleeps 500 ms; a
\* status that is not a success, a body that is not the JSON expected, a
\* number of vectors other than texts.len() and a vector of a length other
\* than self.dimension return Err; otherwise the vectors are returned
TeiAnswer ==
    LET \* tei.rs 71-116: what the client makes of a reply to n texts
        TeiOutcome(n, r) ==
            CASE r.kind # "body" -> r.kind
              [] Len(r.lens) # n -> "count"
              [] \E j \in 1..n : r.lens[j] # D -> "dimension"
              [] OTHER -> "vectors"
    IN
    /\ client = "tei"
    /\ tei.at = "sent"
    /\ \E kind \in {TeiOutcome(tei.n, r) : r \in TeiReplies(tei.n)} :
          tei' = IF TeiRetried(kind)
                 THEN [tei EXCEPT !.at = "pause",
                                  !.retries = tei.retries - 1,
                                  !.replies = Append(tei.replies, kind)]
                 ELSE [tei EXCEPT !.at = "returned",
                                  !.replies = Append(tei.replies, kind),
                                  !.result = IF kind = "vectors" THEN "ok"
                                             ELSE kind]
    /\ UNCHANGED <<google, now, requests, server>>
    /\ ClientsUnchanged

\* tei.rs 121-122: the sleep of 500 ms is over; continue
TeiResume ==
    /\ client = "tei"
    /\ tei.at = "pause"
    /\ tei' = [tei EXCEPT !.at = "loop", !.pauses = tei.pauses + 1]
    /\ UNCHANGED <<google, now, requests, server>>
    /\ ClientsUnchanged

\* tei.rs 127-130: Err("Failed after multiple retries")
TeiGiveUp ==
    /\ client = "tei"
    /\ tei.at = "loop"
    /\ tei.retries = 0
    /\ tei' = [tei EXCEPT !.at = "returned", !.result = "retries"]
    /\ UNCHANGED <<google, now, requests, server>>
    /\ ClientsUnchanged

\* embedding/mod.rs 35: par_chunks hands each chunk to a call of
\* generate_embeddings_batch; the calls of the chunks run in chunk order,
\* one after the other or at the same time as the thread pool has it.
\* google.rs 76-79: no sleep before the first text
GoogleBegin(k) ==
    /\ client = "google"
    /\ google[k].at = "outside"
    /\ \A j \in 1..(k - 1) : google[j].at # "outside"
    /\ google' = [google EXCEPT ![k].at = "ready", ![k].i = 1]
    /\ UNCHANGED <<tei, now, requests, server>>
    /\ ClientsUnchanged

\* google.rs 103-107: the request for text i is sent
GoogleSend(k) ==
    /\ client = "google"
    /\ google[k].at = "ready"
    /\ google' = [google EXCEPT ![k].at = "sent"]
    /\ requests' = Append(requests,
                          [call |-> k, text |-> google[k].i, time |-> now])
    /\ UNCHANGED <<tei, now, server>>
    /\ ClientsUnchanged

\* google.rs 109-170: a good answer is pushed and the loop goes on, with
\* sleep(request_delay_ms) before the next text; anything else returns Err
GoogleAnswer(k) ==
    /\ client = "google"
    /\ google[k].at = "sent"
    /\ \E good \in BOOLEAN :
          google' = [google EXCEPT ![k] =
              IF ~good THEN [@ EXCEPT !.at = "returned", !.result = "err"]
              ELSE IF google[k].i = BatchTexts
              THEN [@ EXCEPT !.at = "returned", !.result = "ok"]
              ELSE [@ EXCEPT !.at = "sleep", !.i = google[k].i + 1,
                             !.wakeAt = now + RequestDelay]]
    /\ UNCHANGED <<tei, now, requests, server>>
    /\ ClientsUnchanged

\* google.rs 78: the sleep is over when request_delay_ms has gone by
GoogleWake(k) ==
    /\ client = "google"
    /\ google[k].at = "sleep"
    /\ now >= google[k].wakeAt
    /\ google' = [google EXCEPT ![k].at = "ready"]
    /\ UNCHANGED <<tei, now, requests, server>>
    /\ ClientsUnchanged

\* a ManagedProcess whose drop leaves the child alone
ManagedProcessForgotten(kills) == kills

\* handle_tei.rs 40-51: Drop for ManagedProcess calls child.kill()
ManagedProcessDrop(kills) == kills + 1

\* handle_tei.rs 81-108: the TEI binary is spawned with piped stdout and
\* stderr, which are taken, and ManagedProcess::new owns the child;
\* start_time is now
TeiSpawn ==
    /\ client = "local_tei"
    /\ server.at = "outside"
    /\ now = 0
    /\ server' = [server EXCEPT !.at = "check", !.proc = "running"]
    /\ UNCHANGED <<tei, google, now, requests>>
    /\ ClientsUnchanged

\* handle_tei.rs 144-145: while Instant::now() < deadline, recv_timeout
TeiLoopCheck ==
    /\ client = "local_tei"
    /\ server.at = "check"
    /\ server' = IF now < Deadline
                 THEN [server EXCEPT !.at = "recv", !.recvFrom = now]
                 ELSE [server EXCEPT !.at = "after"]
    /\ UNCHANGED <<tei, google, now, requests>>
    /\ ClientsUnchanged

\* handle_tei.rs 145-173: a line arrives within the second (one with
\* `Ready` ends the loop), or the second is over, or the channel is
\* disconnected because the process has ended
TeiRecv ==
    /\ client = "local_tei"
    /\ server.at = "recv"
    /\ \/ \E line \in {"Ready", "other"} :
             server' = IF line = "Ready"
                       THEN [server EXCEPT !.at = "after", !.readyAt = now]
                       ELSE [server EXCEPT !.at = "check"]
       \/ /\ now >= server.recvFrom + RecvTimeout
          /\ server' = [server EXCEPT !.at = "check"]
       \/ server' = [server EXCEPT !.at = "after", !.proc = "exited"]
    /\ UNCHANGED <<tei, google, now, requests>>
    /\ ClientsUnchanged

\* handle_tei.rs 178-203: Ok((managed_process, tei_url)) when ready; else
\* Err, and managed_process is dropped (lines 40-50: child.kill())
TeiStartReturn ==
    /\ client = "local_tei"
    /\ server.at = "after"
    /\ server' = IF server.readyAt # NoLine
                 THEN [server EXCEPT !.at = "workflow", !.result = "ok"]
                 ELSE [server EXCEPT
                          !.at = "returned",
                          !.kills = ManagedProcessDrop(server.kills),
                          !.result = IF now >= Deadline THEN "timeout"
                                     ELSE "failed"]
    /\ UNCHANGED <<tei, google, now, requests>>
    /\ ClientsUnchanged

\* workflow.rs 34-133: execute_migration_workflow, which holds the process
\* in tei_process, returns: Err by ? or return (lines 46-47, 62-66,
\* 97-101), so that tei_process is dropped, or Ok after p.kill() (lines
\* 126-128), and then p is dropped
WorkflowReturns ==
    /\ client = "local_tei"
    /\ server.at = "workflow"
    /\ \E how \in {"success", "init_error", "embed_error", "store_error"} :
          server' = [server EXCEPT
                        !.at = "returned",
                        !.workflow = how,
                        !.kills = IF how = "success"
                                  THEN ManagedProcessDrop(server.kills + 1)
                                  ELSE ManagedProcessDrop(server.kills)]
    /\ UNCHANGED <<tei, google, now, requests>>
    /\ ClientsUnchanged

\* time goes by; recv_timeout does not wait longer than its second
Tick ==
    /\ client \in {"google", "local_tei"}
    /\ client = "local_tei" =>
           /\ server.at \in {"check", "recv", "after"}
           /\ server.at = "recv" => now < server.recvFrom + RecvTimeout
    /\ now < MaxTime
    /\ now' = now + 1
    /\ UNCHANGED <<tei, google, requests, server>>
    /\ ClientsUnchanged

NextClients ==
    \/ TeiSend
    \/ TeiAnswer
    \/ TeiResume
    \/ TeiGiveUp
    \/ \E k \in 1..NumGoogleCalls :
          \/ GoogleBegin(k)
          \/ GoogleSend(k)
          \/ GoogleAnswer(k)
          \/ GoogleWake(k)
    \/ TeiSpawn
    \/ TeiLoopCheck
    \/ TeiRecv
    \/ TeiStartReturn
    \/ WorkflowReturns
    \/ Tick

SpecClients == InitClients /\ [][NextClients]_vars

TransportErrors ==
    Cardinality({i \in 1..Len(tei.replies) : tei.replies[i] = "transport"})

\* C24: the TEI client sends at most three requests; only a transport error
\* is followed by another request, after a pause; after three transport
\* errors the call returns an error; a status that is not 2xx, a wrong
\* number of vectors and a vector of a wrong length end the call with an
\* error at once
C24_TeiRetriesOnTransportOnly ==
    client = "tei" =>
        /\ tei.sends <= TeiRetries
        /\ \A i \in 1..Len(tei.replies) :
              (i < Len(tei.replies) \/ tei.at \in {"pause", "loop", "sent"})
                  => tei.replies[i] = "transport"
        /\ tei.at \in {"loop", "sent"} => tei.pauses = TransportErrors
        /\ tei.result = "retries"
              => tei.sends = TeiRetries /\ tei.pauses = TeiRetries
        /\ (tei.at = "returned" /\ tei.result # "retries")
              => /\ tei.result = IF tei.replies[Len(tei.replies)] = "vectors"
                                 THEN "ok"
                                 ELSE tei.replies[Len(tei.replies)]
                 /\ tei.sends = Len(tei.replies)

\* a call that failed on a status after two transport errors
C24_Witness ==
    /\ client = "tei"
    /\ tei.at = "returned"
    /\ tei.result = "status"
    /\ tei.sends = TeiRetries

\* C25: the embedContent requests are sent one at a time, and between any
\* two consecutive ones, of one call or of the calls of successive chunks,
\* at least request_delay_ms goes by
C25_RequestsSpaced ==
    client = "google" =>
        /\ Cardinality({k \in DOMAIN google : google[k].at = "sent"}) <= 1
        /\ \A q \in 2..Len(requests) :
              requests[q].time - requests[q - 1].time >= RequestDelay

Present(table, item) ==
    \E j \in 1..Len(kv[ToLowercase(table)]) :
        /\ kv[ToLowercase(table)][j].vector = item.vec
        /\ kv[ToLowercase(table)][j].id =
               (IF item.metaId THEN 0 ELSE item.id)

\* C28: in Redis grouped mode, when the records of a table have been
\* written in two or more batches and every store_vector call succeeded,
\* every record of every batch is present in the store
C28_NoRecordLostByBatching ==
    (/\ driver = "redis"
     /\ dargs.group_redis
     /\ dpc = "ready"
     /\ Len(returns) >= 2
     /\ Written = 1..Len(returns)) =>
        \A k \in Written :
            \A j \in 1..Len(returns[k].items) :
                Present(dargs.table, returns[k].items[j])

\* the number of items passed to store_vector calls that returned Ok
RECURSIVE StoredItems(_)
StoredItems(n) ==
    IF n = 0 THEN 0
    ELSE StoredItems(n - 1)
         + (IF storeLog[n].ok THEN Len(storeLog[n].items) ELSE 0)

\* C30, the report: after a successful return processed_records is the
\* number of items passed to successful store_vector calls and is at
\* most total_records
C30_ProcessedIsStored ==
    result = "ok" =>
        /\ statsProcessed = StoredItems(Len(storeLog))
        /\ statsProcessed <= Len(records)

\* C30, the counter: the storage progress counter never decreases and
\* grows only when a store_vector call has returned Ok, by no more than
\* the items stored so far
C30_StorageCounterGrows ==
    [][/\ processed_count' >= processed_count
       /\ processed_count' > processed_count =>
              /\ Len(storeLog') = Len(storeLog) + 1
              /\ storeLog'[Len(storeLog')].ok
              /\ processed_count' <= StoredItems(Len(storeLog))
                     + Len(storeLog'[Len(storeLog')].items)]_vars

====
